---------------------------- MODULE Spec2Model ----------------------------
(***************************************************************************)
(* couchdbkit: the persistence lifecycle of src/couchdbkit/client.py       *)
(* (Database.save_doc, Database.save_docs, Uuids) and of                   *)
(* src/couchdbkit/schema/base.py (Document.bulk_save), against an abstract *)
(* CouchDB server that keeps, per document id, a revision counter.         *)
(*                                                                         *)
(* A document map (a Python dict) is a function whose DOMAIN is the set of *)
(* keys it holds: "_id", "_rev" and "val" (the rest of the content).       *)
(* Identity tokens and revisions are positive naturals; the content is     *)
(* ClientVal when this client wrote it and OtherVal when another writer    *)
(* did.  Each HTTP round trip is one step, so that other writers may act   *)
(* between two requests of one call.                                       *)
(***************************************************************************)
EXTENDS Integers, Sequences, FiniteSets, TLC

\* ------------------------------------------------------------- bounds
\* calls of save_doc made by the client in one behaviour
MaxCalls == 2
\* writes (updates, deletions) made by other clients in one behaviour
MaxOther == 2
\* ids other clients write to, and ids the caller may choose: 1..MaxGivenId
MaxGivenId == 2
\* batch size of the uuid pool in the model (the source's default is 1000)
max_uuids == 2
\* longest document list handed to save_docs
MaxDocs == 3
\* calls of copy_doc made by the client in one behaviour
MaxCopies == 1
\* design documents a database may hold: the ids 1..MaxDesign
MaxDesign == 2
\* calls of Uuids.next made in one behaviour
MaxNext == 5
\* class statements executed in one behaviour
MaxClasses == 2
\* calls of CouchdbResource.request made in one behaviour
MaxRequests == 2
\* calls of View methods made in one behaviour
MaxViewCalls == 3
\* most rows a view result has
MaxRows == 2

\* document content: written by this client, or by another one
ClientVal == "client"
OtherVal == "other"

\* ------------------------------------------------------------- state
VARIABLES
    store,       \* server: id -> [rev, val, deleted]
    srv_uuid,    \* server: the last identity token it generated
    _uuids,      \* Uuids._uuids, the client's pool of identity tokens
    doc,         \* the caller's document map handed to save_doc
    pc,          \* position of the save_doc call
    force_update,\* the call's force_update argument
    json_doc,    \* save_doc's local json_doc (payload of an id-less document)
    outcome,     \* "none" while running, "ok" or the exception raised
    doc0,        \* history: the document map when the call started
    stale0,      \* history: the call started with a revision the server rejects
    reqs,        \* history: the requests of the call, in order
    json_res,    \* history: body of the last successful write response
    commits,     \* history: server writes made for the client in this call
    interf,      \* history: writes of other clients during the call
    calls,       \* number of finished calls
    others,      \* number of writes made by other clients
    heap,        \* the caller's dict objects, by address 1..Len(heap)
    insts,       \* the Document instances handed to bulk_save: [_doc_type, _doc],
                 \* _doc the address of the instance's wire-form
    docs,        \* save_docs' argument docs: a list of addresses
    bpc,         \* position of the save_docs call
    all_or_nothing, \* save_docs' argument
    use_uuids,   \* save_docs' argument
    noids,       \* save_docs' local noids: addresses
    bk,          \* position of the loop over noids
    boutcome,    \* "none" while running, "ok" or the exception raised
    berror,      \* the BulkSaveError raised, when one was
    heap0,       \* history: the dict objects when the call started
    breqs,       \* history: the requests of the call, in order
    bres,        \* history: body of the response to POST /_bulk_docs
    self_doc,    \* Document._doc, the wire-form of the instance delete is called on
    _db,         \* whether the instance's class has a database (Document._db)
    id_or_doc,   \* delete_doc's argument: a docid string or a document dict
    dvia,        \* the entry point of the call: Document.delete or delete_doc
    dpc,         \* position of the delete call
    drev,        \* delete_doc's rev, the revision sent with the DELETE
    doutcome,    \* "none" while running, "ok" or the exception raised
    dreqs,       \* history: the requests of the call, in order
    self_doc0,   \* history: the wire-form when the call started
    dcalls,      \* number of finished delete calls
    csrc,        \* copy_doc's argument id_or_doc
    dest,        \* copy_doc's argument dest: None, a docid string or a dict
    cpc,         \* position of the copy_doc call
    destination, \* copy_doc's destination: the id and the revision guard (0: none)
    destid,      \* copy_doc's destid
    coutcome,    \* "none" while running, "ok" or the exception raised
    cresult,     \* the document copy_doc returned
    creqs,       \* history: the requests of the call, in order
    ccalls,      \* number of finished copy_doc calls
    aop,         \* the attachment call made: put_attachment or delete_attachment
    apc,         \* position of the attachment call
    aoutcome,    \* "none" while running, "ok" or the exception raised
    areqs,       \* history: the requests of the call, in order
    adoc0,       \* history: the caller's document when the call started
    a_others,    \* history: the writes of other clients when the call ended
    a_calls,     \* history: the finished save_doc calls when the call ended
    acalls,      \* number of finished attachment calls
    db_exists,   \* server: whether the database exists
    fpc,         \* position of the flush call
    ddocs,       \* flush's local ddocs
    foutcome,    \* "none" while running, "ok" or the exception raised
    freqs,       \* history: the requests of the call, in order
    store0,      \* history: the documents of the database when the call started
    fothers,     \* number of writes made by other clients
    fothers0,    \* history: fothers when the call started
    upc,         \* position of each requester in Uuids.next
    ucount,      \* fetch_uuids' local count, per requester
    resp_uuids,  \* fetch_uuids' resp.json_body['uuids'], per requester
    urest,       \* next: the value of self._uuids[:-1], per requester
    ures,        \* next: the value of self._uuids[-1], per requester
    ulen0,       \* history: length of the pool when the requester's call started
    ureqs,       \* history: the requests to /_uuids, in order
    ucalls,      \* history: the finished calls of next, in order
    pool_max,    \* history: the longest the pool has been
    self_params, \* View.params, the view's own parameter map
    cache,       \* View.cache, whether the view caches its result
    wrapper,     \* View.wrapper: "None" or the function applied to every row
    _result_cache, \* View._result_cache: None or the cached result
    vop,         \* the View method called
    extra_params,\* fetch's argument
    nocache,     \* fetch's argument
    except_all,  \* one's argument
    vstage,      \* position of the call: how many fetches it has asked for
    voutcome,    \* "none" while running, "ok" or the exception raised
    vret,        \* the value the call returned
    vused,       \* history: the result the returned value was computed from
    vreqs,       \* history: the requests of the call, in order
    vparams0,    \* history: View.params when the call started
    vcache0,     \* history: View._result_cache when the call started
    vhist,       \* history: the kinds of successful fetch made so far
    vhist0,      \* history: vhist when the call started
    vcalls,      \* number of finished calls
    uri,         \* View.uri of the view that is indexed
    child_made,  \* whether View.__getitem__ has returned a view
    child_uri,   \* uri of the view returned by __getitem__
    child_wrapper, \* wrapper of the view returned by __getitem__
    child_params, \* params of the view returned by __getitem__
    child_alias, \* whether its params is the very dict of the indexed view
    child_cache, \* _result_cache of the view returned by __getitem__
    child_reqs,  \* history: the last request of the returned view, if any
    xkey,        \* history: the key of the last __getitem__
    xparams0,    \* history: params of the indexed view before __getitem__
    xcalls,      \* number of calls made on the second view or to make it
    rpc,         \* position of CouchdbResource.request: idle, send, done
    rpayload,    \* kind of its payload argument: none, str or obj
    rheaders,    \* its headers argument: None or dict
    rstatus,     \* status of the response it got, 0 when it got none
    rraised,     \* the exception the transport raised, or none
    routcome,    \* none while running, ok when the response is returned, or the exception raised
    rlog,        \* history: the outcomes of the finished calls
    rhook,       \* what the unauthorized hook of the resource called answers
    rsent,       \* round trips made by the call of request so far
    classes,     \* the document classes defined so far, each as its _properties (names)
    kbases,      \* bases of the last class statement, as their _properties
    kattrs,      \* body of the last class statement: attribute name -> kind of value
    koutcome,    \* none, created, or the exception the class statement raised
    kprops,      \* _properties of the class the last statement created
    kdefs,       \* number of class statements executed
    obj_cls,     \* class of the document instance followed: none, Document or StaticDocument
    cls_allow,   \* _allow_dynamic_properties of each of the two classes
    cls_db,      \* whether the document classes have a database (_db)
    obj_doc,     \* its _doc, the wire form: key -> value, Absent where the key is missing
    obj_dynamic, \* its _dynamic_properties: key -> value as read from a container wrapper
    obj_dict,    \* its other instance attributes (set by object.__setattr__)
    obj_bound,   \* keys whose container wrapper writes to the object now in _doc[key]
    id_from,     \* who put the _id in _doc: none, caller, wire (wrap) or server (save)
    sop,         \* the last operation on a document
    skey,        \* its key argument, the docid of get_or_create, or none
    sout,        \* ok, or the exception it raised
    scalls       \* number of operations made

serverVars == <<store, srv_uuid>>
saveVars == <<doc, pc, force_update, json_doc, outcome, doc0, stale0, reqs,
              json_res, commits, interf, calls, others>>
bulkVars == <<heap, insts, docs, bpc, all_or_nothing, use_uuids, noids, bk,
              boutcome, berror, heap0, breqs, bres>>
delVars == <<self_doc, _db, id_or_doc, dvia, dpc, drev, doutcome, dreqs,
             self_doc0, dcalls>>
vars == <<store, srv_uuid, _uuids, doc, pc, force_update, json_doc, outcome,
          doc0, stale0, reqs, json_res, commits, interf, calls, others,
          heap, insts, docs, bpc, all_or_nothing, use_uuids, noids, bk,
          boutcome, berror, heap0, breqs, bres,
          self_doc, _db, id_or_doc, dvia, dpc, drev, doutcome, dreqs,
          self_doc0, dcalls,
          csrc, dest, cpc, destination, destid, coutcome, cresult, creqs, ccalls,
          aop, apc, aoutcome, areqs, adoc0, a_others, a_calls, acalls,
          db_exists, fpc, ddocs, foutcome, freqs, store0, fothers, fothers0,
          upc, ucount, resp_uuids, urest, ures, ulen0, ureqs, ucalls, pool_max,
          self_params, cache, wrapper, _result_cache, vop, extra_params, nocache, except_all,
          vstage, voutcome, vret, vused, vreqs, vparams0, vcache0, vhist, vhist0, vcalls,
          uri, child_made, child_uri, child_wrapper, child_params, child_alias, child_cache, child_reqs, xkey, xparams0, xcalls,
          rpc, rpayload, rheaders, rstatus, rraised, routcome, rlog, rhook, rsent,
          classes, kbases, kattrs, koutcome, kprops, kdefs,
          obj_cls, cls_allow, cls_db, obj_doc, obj_dynamic, obj_dict, obj_bound, id_from, sop, skey, sout, scalls>>
docVars == <<obj_cls, cls_allow, cls_db, obj_doc, obj_dynamic, obj_dict, obj_bound, id_from, sop, skey, sout, scalls>>
clsVars == <<classes, kbases, kattrs, koutcome, kprops, kdefs>>
reqVars == <<rpc, rpayload, rheaders, rstatus, rraised, routcome, rlog, rhook, rsent>>
idxVars == <<uri, child_made, child_uri, child_wrapper, child_params, child_alias, child_cache, child_reqs, xkey, xparams0, xcalls>>
viewVars == <<self_params, cache, wrapper, _result_cache, vop, extra_params, nocache, except_all,
              vstage, voutcome, vret, vused, vreqs, vparams0, vcache0, vhist, vhist0, vcalls>>
uuidVars == <<upc, ucount, resp_uuids, urest, ures, ulen0, ureqs, ucalls, pool_max>>
flushVars == <<db_exists, fpc, ddocs, foutcome, freqs, store0, fothers, fothers0>>
attVars == <<aop, apc, aoutcome, areqs, adoc0, a_others, a_calls, acalls>>
copyVars == <<csrc, dest, cpc, destination, destid, coutcome, cresult, creqs,
              ccalls>>

\* what the steps of one operation leave alone: the state of the others
notSave == <<bulkVars, delVars, copyVars, attVars, flushVars, uuidVars,
    viewVars, idxVars, reqVars, clsVars, docVars>>
notBulk == <<saveVars, delVars, copyVars, attVars, flushVars, uuidVars,
    viewVars, idxVars, reqVars, clsVars, docVars>>
notDel == <<srv_uuid, _uuids, saveVars, bulkVars, copyVars, attVars, flushVars, uuidVars,
    viewVars, idxVars, reqVars, clsVars, docVars>>
notCopy == <<saveVars, bulkVars, delVars, attVars, flushVars, uuidVars,
    viewVars, idxVars, reqVars, clsVars, docVars>>
notAtt == <<srv_uuid, _uuids, bulkVars, delVars, copyVars, flushVars, uuidVars,
    viewVars, idxVars, reqVars, clsVars, docVars>>
notFlush == <<_uuids, saveVars, bulkVars, delVars, copyVars, attVars, uuidVars,
    viewVars, idxVars, reqVars, clsVars, docVars>>
notUuids == <<store, saveVars, bulkVars, delVars, copyVars, attVars, flushVars,
    viewVars, idxVars, reqVars, clsVars, docVars>>
notView == <<store, srv_uuid, _uuids, saveVars, bulkVars, delVars, copyVars, attVars,
    flushVars, uuidVars, idxVars, reqVars, clsVars, docVars>>
notIdx == <<store, srv_uuid, _uuids, saveVars, bulkVars, delVars, copyVars, attVars,
    flushVars, uuidVars, reqVars, clsVars, docVars>>
notReq == <<store, srv_uuid, _uuids, saveVars, bulkVars, delVars, copyVars, attVars,
    flushVars, uuidVars, viewVars, idxVars, clsVars, docVars>>
notCls == <<store, srv_uuid, _uuids, saveVars, bulkVars, delVars, copyVars, attVars,
    flushVars, uuidVars, viewVars, idxVars, reqVars, docVars>>
notDoc == <<store, srv_uuid, _uuids, saveVars, bulkVars, delVars, copyVars, attVars,
    flushVars, uuidVars, viewVars, idxVars, reqVars, clsVars>>

\* ------------------------------------------------------------- dicts
Empty == << >>

\* dict.update: the entries of d1 replace or extend those of d
Update(d, d1) == d1 @@ d

Has(d, k) == k \in DOMAIN d

\* d[k] = v, adding the key when absent
Set(d, k, v) == (k :> v) @@ d

\* ------------------------------------------------------------- server
\* The server is CouchDB itself, outside the repository: a document has a
\* current revision, a write is accepted only with that revision, and every
\* accepted write produces the successor revision.
Exists(s, id) == id \in DOMAIN s /\ ~s[id].deleted

CurRev(s, id) == IF id \in DOMAIN s THEN s[id].rev ELSE 0

BodyRev(body) == IF Has(body, "_rev") THEN body["_rev"] ELSE 0

Accepts(s, id, body) ==
    IF Exists(s, id)
    THEN BodyRev(body) = s[id].rev
    ELSE BodyRev(body) = 0 \/ BodyRev(body) = CurRev(s, id)

Commit(s, id, v, del) ==
    [x \in DOMAIN s \cup {id} |->
        IF x = id THEN [rev |-> CurRev(s, id) + 1, val |-> v, deleted |-> del]
        ELSE s[x]]

\* body of the response to an accepted write
WriteOk(s, id) == [ok |-> TRUE, id |-> id, rev |-> CurRev(s, id) + 1]

\* statuses the server answers with
StatusOk == 200
NotFoundStatus == 404
ConflictStatus == 412
ServerErrorStatus == 500

\* status of a write of body under id
WriteStatus(s, id, body) == IF Accepts(s, id, body) THEN StatusOk ELSE ConflictStatus


\* ------------------------------------------------------------- transport
\* CouchdbResource.unauthorized: the hook's default answer
unauthorized == TRUE

\* CouchdbResource.request, the mapping of the response status: "ok" when the
\* response is returned, else the exception raised.  On 401 and 403 the raise
\* statement reads the undefined name `response`, which raises NameError; were
\* the hook to decline, the loop would send the request again ("again").
request_with(status, hook) ==
    IF status >= 400
    THEN IF status = 404 THEN "ResourceNotFound"
         ELSE IF status = 412 THEN "ResourceConflict"
         ELSE IF status \in {401, 403}
              THEN (IF hook THEN "NameError" ELSE "again")
         ELSE "RequestFailed"
    ELSE "ok"

\* request on a resource that has the default hook
request(status) == request_with(status, unauthorized)

\* the transport may fail any request with a server error instead of serving it
Statuses(served) == {served, ServerErrorStatus}

\* ------------------------------------------------------------- Uuids
\* mutant of fetch_count: one token per round trip
fetch_count_one(pool) == 1

\* Uuids.fetch_uuids: the number of tokens asked for
fetch_count(pool) == max_uuids - Len(pool)

\* the tokens the server hands out for GET /_uuids?count=n: never seen before
ServerUuids(last, n) == [i \in 1..n |-> last + i]

\* Uuids.fetch_uuids: self._uuids += resp.json_body['uuids']
fetch_uuids(pool, last) == pool \o ServerUuids(last, fetch_count(pool))

\* mutant of next_rest: the token handed out stays in the pool
next_rest_all(pool) == pool

\* Uuids.next: the token handed out (the last of the pool) and the pool left
next_res(pool) == pool[Len(pool)]

next_rest(pool) == SubSeq(pool, 1, Len(pool) - 1)

\* ------------------------------------------------------------- save_doc
aliases == [id |-> "_id", rev |-> "_rev"]

\* save_doc's doc1: for a, n in aliases.items(): if a in json_res: doc1[n] = json_res[a]
doc1(res) ==
    [n \in {aliases[a] : a \in (DOMAIN aliases) \cap (DOMAIN res)} |->
        res[CHOOSE a \in DOMAIN aliases : aliases[a] = n]]

\* mutant of save_doc_update: the response's id is not copied
save_doc_update_rev_only(d, res) == Update(d, [n \in {"_rev"} |-> res.rev])

\* save_doc's last statement: doc.update(doc1)
save_doc_update(d, res) == Update(d, doc1(res))

\* mutant of conflict_raises: the conflict is retried whatever force_update is
conflict_raises_never(fu) == FALSE

\* save_doc's handler of a conflict on the first PUT of a document with _id:
\* re-raise unless force_update
conflict_raises(fu) == ~fu

\* mutant of retry_conflict: the retried PUT is inside the try as well
retry_conflict_again == "last_rev"

\* a conflict on the retried PUT (line 282, outside the try) is not handled
retry_conflict == "raise"

\* the documents a caller starts with: new, without or with an id of its own
InitDocs ==
    {[val |-> ClientVal]} \cup
    {[val |-> ClientVal, _id |-> i] : i \in 1..MaxGivenId}

\* a call is in progress, or over and not yet handed back to the caller
Running == pc # "idle"

Raise(exc) ==
    /\ pc' = "done"
    /\ outcome' = exc

\* the call: save_doc(doc, force_update=fu), up to its first request
save_doc(fu) ==
    /\ pc = "idle"
    /\ calls < MaxCalls
    /\ force_update' = fu
    /\ doc0' = doc
    /\ stale0' = (Has(doc, "_id") /\ Exists(store, doc["_id"])
                    /\ ~Accepts(store, doc["_id"], doc))
    /\ reqs' = << >>
    /\ commits' = << >>
    /\ json_res' = Empty
    /\ interf' = 0
    /\ outcome' = "none"
    /\ IF Has(doc, "_id")
       THEN pc' = "put" /\ json_doc' = Empty
       ELSE pc' = "uuids_next" /\ json_doc' = doc
    /\ UNCHANGED <<store, srv_uuid, _uuids, doc, calls, others>>
    /\ UNCHANGED notSave

\* a write request PUT id (or POST, id chosen by the server) with body, answered
\* with `status`; on success the response updates the document
Req(method, status, rev) == [m |-> method, status |-> status, rev |-> rev]

Write(method, id, body, status, onConflict) ==
    /\ reqs' = Append(reqs, Req(method, status, 0))
    /\ IF request(status) = "ok"
       THEN /\ store' = Commit(store, id, body["val"], FALSE)
            /\ commits' = Append(commits,
                    [id |-> id, prev |-> CurRev(store, id), rev |-> CurRev(store, id) + 1])
            /\ json_res' = WriteOk(store, id)
            /\ doc' = save_doc_update(doc, WriteOk(store, id))
            /\ Raise("ok")
       ELSE /\ UNCHANGED <<store, commits, json_res, doc>>
            /\ IF request(status) = "ResourceConflict" /\ onConflict # "raise"
               THEN pc' = onConflict /\ UNCHANGED outcome
               ELSE Raise(request(status))

\* line 276: resp = self.put(docid, payload=json.dumps(doc))
save_doc_put ==
    /\ pc = "put"
    /\ \E status \in Statuses(WriteStatus(store, doc["_id"], doc)) :
         Write("PUT", doc["_id"], doc, status,
               IF conflict_raises(force_update) THEN "raise" ELSE "last_rev")
    /\ UNCHANGED <<srv_uuid, _uuids, force_update, json_doc, doc0, stale0,
                   interf, calls, others>>
    /\ UNCHANGED notSave

\* mutant of last_rev: the revision sent back is not the server's current one
last_rev_own(s, docid) == CurRev(s, docid) - 1

\* Database.last_rev: the etag header of the HEAD response, the current revision
last_rev(s, docid) == CurRev(s, docid)

\* lines 280-281: rev = self.last_rev(doc['_id']); doc['_rev'] = rev
save_doc_last_rev ==
    /\ pc = "last_rev"
    /\ \E status \in Statuses(IF Exists(store, doc["_id"]) THEN StatusOk
                              ELSE NotFoundStatus) :
         /\ reqs' = Append(reqs, Req("HEAD", status, last_rev(store, doc["_id"])))
         /\ IF request(status) = "ok"
            THEN /\ doc' = Set(doc, "_rev", last_rev(store, doc["_id"]))
                 /\ pc' = "put_retry"
                 /\ UNCHANGED outcome
            ELSE /\ Raise(request(status))
                 /\ UNCHANGED doc
    /\ UNCHANGED <<store, srv_uuid, _uuids, force_update, json_doc, doc0, stale0,
                   json_res, commits, interf, calls, others>>
    /\ UNCHANGED notSave

\* line 282: resp = self.put(docid, payload=json.dumps(doc)), outside the try
save_doc_put_retry ==
    /\ pc = "put_retry"
    /\ \E status \in Statuses(WriteStatus(store, doc["_id"], doc)) :
         Write("PUT", doc["_id"], doc, status, retry_conflict)
    /\ UNCHANGED <<srv_uuid, _uuids, force_update, json_doc, doc0, stale0,
                   interf, calls, others>>
    /\ UNCHANGED notSave

\* line 286: doc['_id'] = self.uuids.next(), which refills an empty pool first
save_doc_uuids_next ==
    /\ pc = "uuids_next"
    /\ IF _uuids = << >>
       THEN \E status \in Statuses(StatusOk) :
              /\ reqs' = Append(reqs, Req("GET /_uuids", status, 0))
              /\ IF request(status) = "ok"
                 THEN /\ _uuids' = next_rest(fetch_uuids(_uuids, srv_uuid))
                      /\ srv_uuid' = srv_uuid + fetch_count(_uuids)
                      /\ doc' = Set(doc, "_id", next_res(fetch_uuids(_uuids, srv_uuid)))
                      /\ pc' = "put_new"
                      /\ UNCHANGED outcome
                 ELSE /\ Raise(request(status))
                      /\ UNCHANGED <<_uuids, srv_uuid, doc>>
       ELSE /\ _uuids' = next_rest(_uuids)
            /\ doc' = Set(doc, "_id", next_res(_uuids))
            /\ pc' = "put_new"
            /\ UNCHANGED <<reqs, srv_uuid, outcome>>
    /\ UNCHANGED <<store, force_update, json_doc, doc0, stale0, json_res,
                   commits, interf, calls, others>>
    /\ UNCHANGED notSave

\* line 287: resp = self.put(doc['_id'], payload=json_doc); a conflict goes to
\* the except clause of line 288
save_doc_put_new ==
    /\ pc = "put_new"
    /\ \E status \in Statuses(WriteStatus(store, doc["_id"], json_doc)) :
         Write("PUT", doc["_id"], json_doc, status, "post")
    /\ UNCHANGED <<srv_uuid, _uuids, force_update, json_doc, doc0, stale0,
                   interf, calls, others>>
    /\ UNCHANGED notSave

\* line 289: resp = self.post(payload=json_doc); the server chooses the id
save_doc_post ==
    /\ pc = "post"
    /\ \E status \in Statuses(WriteStatus(store, srv_uuid + 1, json_doc)) :
         Write("POST", srv_uuid + 1, json_doc, status, "raise")
    /\ srv_uuid' = srv_uuid + 1
    /\ UNCHANGED <<_uuids, force_update, json_doc, doc0, stale0,
                   interf, calls, others>>
    /\ UNCHANGED notSave

\* the call is over: the caller has the result or the exception
save_doc_return ==
    /\ pc = "done"
    /\ pc' = "idle"
    /\ calls' = calls + 1
    /\ UNCHANGED <<store, srv_uuid, _uuids, doc, force_update, json_doc, outcome,
                   doc0, stale0, reqs, json_res, commits, interf, others>>
    /\ UNCHANGED notSave

\* between two calls the caller turns to a new document
caller_new_doc ==
    /\ pc = "idle"
    /\ calls \in 1..(MaxCalls - 1)
    /\ doc' \in InitDocs \ {doc}
    /\ UNCHANGED <<store, srv_uuid, _uuids, pc, force_update, json_doc, outcome,
                   doc0, stale0, reqs, json_res, commits, interf, calls, others>>
    /\ UNCHANGED notSave

\* another client writes (or deletes) a document with the revision it read
OtherWriter(id, del) ==
    /\ others < MaxOther
    /\ del => Exists(store, id)
    /\ store' = Commit(store, id, OtherVal, del)
    /\ others' = others + 1
    /\ interf' = IF Running THEN interf + 1 ELSE interf
    /\ UNCHANGED <<srv_uuid, _uuids, doc, pc, force_update, json_doc, outcome,
                   doc0, stale0, reqs, json_res, commits, calls>>
    /\ UNCHANGED notSave

\* no save_doc call has been made
InitSave ==
    /\ pc = "idle"
    /\ force_update = FALSE
    /\ json_doc = Empty
    /\ outcome = "none"
    /\ doc0 = Empty
    /\ stale0 = FALSE
    /\ reqs = << >>
    /\ json_res = Empty
    /\ commits = << >>
    /\ interf = 0
    /\ calls = 0
    /\ others = 0

\* no save_docs call has been made
InitBulk ==
    /\ insts = << >>
    /\ docs = << >>
    /\ bpc = "idle"
    /\ all_or_nothing = FALSE
    /\ use_uuids = FALSE
    /\ noids = << >>
    /\ bk = 0
    /\ boutcome = "none"
    /\ berror = Empty
    /\ heap0 = << >>
    /\ breqs = << >>
    /\ bres = << >>

\* no delete call has been made
InitDel ==
    /\ self_doc = Empty
    /\ _db = TRUE
    /\ id_or_doc = [str |-> 0, dict |-> Empty]
    /\ dvia = "none"
    /\ dpc = "idle"
    /\ drev = 0
    /\ doutcome = "none"
    /\ dreqs = << >>
    /\ self_doc0 = Empty
    /\ dcalls = 0

\* no copy_doc call has been made
InitCopy ==
    /\ csrc = [str |-> 0, dict |-> Empty]
    /\ dest = [str |-> 0, dict |-> Empty, kind |-> "None"]
    /\ cpc = "idle"
    /\ destination = [id |-> 0, rev |-> 0]
    /\ destid = 0
    /\ coutcome = "none"
    /\ cresult = Empty
    /\ creqs = << >>
    /\ ccalls = 0

\* no attachment call has been made
InitAtt ==
    /\ aop = "none"
    /\ apc = "idle"
    /\ aoutcome = "none"
    /\ areqs = << >>
    /\ adoc0 = Empty
    /\ a_others = 0
    /\ a_calls = 0
    /\ acalls = 0

\* no flush call has been made
InitFlush ==
    /\ db_exists = TRUE
    /\ fpc = "idle"
    /\ ddocs = << >>
    /\ foutcome = "none"
    /\ freqs = << >>
    /\ store0 = << >>
    /\ fothers = 0
    /\ fothers0 = 0

\* the requesters of identity tokens
Requesters == {1, 2}

\* no requester has called Uuids.next
InitUuids ==
    /\ upc = [t \in Requesters |-> "idle"]
    /\ ucount = [t \in Requesters |-> 0]
    /\ resp_uuids = [t \in Requesters |-> << >>]
    /\ urest = [t \in Requesters |-> << >>]
    /\ ures = [t \in Requesters |-> 0]
    /\ ulen0 = [t \in Requesters |-> 0]
    /\ ureqs = << >>
    /\ ucalls = << >>
    /\ pool_max = 0

\* View._result_cache = None, and a result wrapped as a value that is not None
None == [v |-> [rows |-> << >>], is_none |-> TRUE]

Some(r) == [v |-> r, is_none |-> FALSE]

\* the value a View method returns: a number or row (n), or a list of rows
VRet(n, rs) == [n |-> n, rows |-> rs]

\* whether some fetch has been answered, whether one of them was stored, and
\* whether the stored result answered the request for the view's own parameters
Fetches(any, kept, own) == [fetched |-> any, stored |-> kept, own |-> own]

\* the key of View.__getitem__: a slice with bounds start and stop (<< >> for
\* None, <<b>> for the bound b), a list or tuple of items, or another value
IndexKey(k, a, b, its, v) == [val |-> v, kind |-> k, start |-> a, stop |-> b, items |-> its]

\* DocumentSchema alone is defined: it declares no property
\* Python values: a type tag, the text of a string or number, the items of a list
Val(t, str, l) == [vt |-> t, vs |-> str, vl |-> l]

Absent == Val("absent", "", << >>)

\* the keys of the model: the reserved ones, the type tag, the declared
\* property, a free name, and a name that dir() of an instance holds (a method)
Keys == {"_id", "_rev", "$schema", "doc_type", "title", "tags", "items"}

NoKeys == [k \in Keys |-> Absent]

DocClasses == {"Document", "StaticDocument"}

\* no document instance yet; lines 95, 621: Document permits dynamic properties,
\* StaticDocument does not
InitDoc ==
    /\ obj_cls = "none"
    /\ cls_allow = [c \in DocClasses |-> c = "Document"]
    /\ cls_db = FALSE
    /\ obj_doc = NoKeys
    /\ obj_dynamic = NoKeys
    /\ obj_dict = NoKeys
    /\ obj_bound = {}
    /\ id_from = "none"
    /\ sop = "none"
    /\ skey = "none"
    /\ sout = "ok"
    /\ scalls = 0

InitCls ==
    /\ classes = {{}}
    /\ kbases = << >>
    /\ kattrs = Empty
    /\ koutcome = "none"
    /\ kprops = {}
    /\ kdefs = 0

\* a resource on which request has not been called
InitReq ==
    /\ rpc = "idle"
    /\ rhook = TRUE
    /\ rsent = 0
    /\ rpayload = "none"
    /\ rheaders = "None"
    /\ rstatus = 0
    /\ rraised = "none"
    /\ routcome = "none"
    /\ rlog = << >>

\* a view that has not been indexed
InitIdx ==
    /\ uri = "_design/d/_view/v"
    /\ child_made = FALSE
    /\ child_uri = ""
    /\ child_wrapper = "None"
    /\ child_params = Empty
    /\ child_alias = FALSE
    /\ child_cache = None
    /\ child_reqs = << >>
    /\ xkey = IndexKey("other", << >>, << >>, << >>, 0)
    /\ xparams0 = Empty
    /\ xcalls = 0

\* a view without parameters on which no method has been called
InitView ==
    /\ self_params = Empty
    /\ cache = TRUE
    /\ wrapper = "None"
    /\ _result_cache = None
    /\ vop = "none"
    /\ extra_params = Empty
    /\ nocache = FALSE
    /\ except_all = FALSE
    /\ vstage = 0
    /\ voutcome = "none"
    /\ vret = VRet(0, << >>)
    /\ vused = None
    /\ vreqs = << >>
    /\ vparams0 = Empty
    /\ vcache0 = None
    /\ vhist = Fetches(FALSE, FALSE, TRUE)
    /\ vhist0 = Fetches(FALSE, FALSE, TRUE)
    /\ vcalls = 0

\* a new database and an empty pool; the caller holds one document
Init ==
    /\ store = << >>
    /\ srv_uuid = 0
    /\ _uuids = << >>
    /\ doc \in InitDocs
    /\ heap = << >>
    /\ InitSave
    /\ InitBulk
    /\ InitDel
    /\ InitCopy
    /\ InitAtt
    /\ InitFlush
    /\ InitUuids
    /\ InitView
    /\ InitIdx
    /\ InitReq
    /\ InitCls
    /\ InitDoc

Next ==
    \/ \E fu \in BOOLEAN : save_doc(fu)
    \/ save_doc_put
    \/ save_doc_last_rev
    \/ save_doc_put_retry
    \/ save_doc_uuids_next
    \/ save_doc_put_new
    \/ save_doc_post
    \/ save_doc_return
    \/ caller_new_doc
    \/ \E id \in 1..MaxGivenId, del \in BOOLEAN : OtherWriter(id, del)

Spec == Init /\ [][Next]_vars

\* ------------------------------------------------------------- save_doc: claims
IsWrite(r) == r.m \in {"PUT", "POST"}

WriteReqs == SelectSeq(reqs, IsWrite)

IsHead(r) == r.m = "HEAD"

HeadReqs == SelectSeq(reqs, IsHead)

\* no request of the call was failed by the transport
NoTransportError == \A i \in 1..Len(reqs) : reqs[i].status # ServerErrorStatus

Done == pc = "done"

\* C1: a save_doc call on a document without _id that returns without error
\* leaves the document with a non-empty _id and a non-empty _rev, equal to the
\* id and rev of the response to the write that succeeded (the PUT under the
\* pooled token, or the POST after a conflict), which is the document the
\* server stored.
C1_NewDocGetsIdAndRev ==
    (Done /\ outcome = "ok" /\ ~Has(doc0, "_id")) =>
        /\ Has(doc, "_id") /\ Has(doc, "_rev")
        /\ doc["_id"] >= 1 /\ doc["_rev"] >= 1
        /\ WriteReqs[Len(WriteReqs)].status = StatusOk
        /\ doc["_id"] = json_res.id /\ doc["_rev"] = json_res.rev
        /\ commits = <<[id |-> doc["_id"], prev |-> doc["_rev"] - 1, rev |-> doc["_rev"]]>>

C1_Witness ==
    /\ Done /\ outcome = "ok" /\ ~Has(doc0, "_id")
    /\ Len(WriteReqs) = 2 /\ WriteReqs[2].m = "POST"
    /\ doc["_id"] = json_res.id

C3_ForceUpdateRetriesOnce ==
    force_update =>
        /\ Len(WriteReqs) <= 2
        /\ Len(HeadReqs) <= 1
        /\ Len(HeadReqs) = 1 =>
              /\ Has(doc0, "_id")
              /\ reqs[1] = Req("PUT", ConflictStatus, 0)
              /\ reqs[2].m = "HEAD"
              /\ Len(reqs) <= 3
              /\ Len(reqs) = 3 => reqs[3].m = "PUT"
        /\ (Has(doc0, "_id") /\ Len(WriteReqs) = 2) => Len(HeadReqs) = 1
        /\ (Done /\ Has(doc0, "_id") /\ Len(WriteReqs) = 2
                 /\ WriteReqs[2].status = ConflictStatus) =>
              outcome = "ResourceConflict"

C3_Witness ==
    /\ Done /\ force_update /\ Has(doc0, "_id")
    /\ Len(WriteReqs) = 2 /\ WriteReqs[2].status = ConflictStatus
    /\ interf >= 1
    /\ outcome = "ResourceConflict"

\* C4: save_doc with force_update on a document whose revision is not the
\* current one of the server's document, with no other writer and no transport
\* failure during the call, succeeds: the server stores the content once, as
\* the successor of the revision it had, and the document ends with the
\* revision returned by the retried write, not the one fetched for the retry.
C4_ForceUpdateStaleSucceeds ==
    (Done /\ force_update /\ stale0 /\ interf = 0 /\ NoTransportError) =>
        /\ outcome = "ok"
        /\ Len(WriteReqs) = 2
        /\ Len(commits) = 1
        /\ commits[1].id = doc0["_id"]
        /\ commits[1].prev = reqs[2].rev
        /\ commits[1].rev = reqs[2].rev + 1
        /\ doc["_rev"] = json_res.rev
        /\ doc["_rev"] = commits[1].rev
        /\ doc["_rev"] # reqs[2].rev
        /\ store[doc["_id"]] =
              [rev |-> doc["_rev"], val |-> doc["val"], deleted |-> FALSE]

C4_Witness ==
    /\ Done /\ force_update /\ stale0 /\ interf = 0 /\ NoTransportError
    /\ Has(doc0, "_rev")
    /\ outcome = "ok"
    /\ doc["_rev"] = doc0["_rev"] + 2

\* C5: the only automatic retry is the force_update conflict path: a write
\* request that fails is followed by another write request of the same call
\* only when force_update is set, the document had an _id and the failure was
\* a conflict; a save_doc call on a document without _id issues at most one
\* write request and raises the conflict on it.
C5_OnlyForceUpdateRetries ==
    /\ \A i \in 1..Len(reqs) : \A j \in (i + 1)..Len(reqs) :
          (IsWrite(reqs[i]) /\ reqs[i].status >= 400 /\ IsWrite(reqs[j])) =>
              (force_update /\ Has(doc0, "_id") /\ reqs[i].status = ConflictStatus)
    /\ ~Has(doc0, "_id") =>
          /\ Len(WriteReqs) <= 1
          /\ (Done /\ Len(WriteReqs) = 1 /\ WriteReqs[1].status = ConflictStatus) =>
                outcome = "ResourceConflict"

\* C6: when save_doc on a document without _id raises, the document still has
\* no _id.
C6_FailedSaveLeavesNoId ==
    (Done /\ outcome # "ok" /\ ~Has(doc0, "_id")) => ~Has(doc, "_id")

\* ------------------------------------------------------------- save_docs
\* ids of the documents the bulk caller holds an id for; the server has the
\* first of them, at revision 1
BulkIds == {1, 2}

BulkStore == (1 :> [rev |-> 1, val |-> 0, deleted |-> FALSE])

\* the class bulk_save is called on, and another document class
Cls == "A"

OtherCls == "B"

\* the dict at address a is one of: no _id; an _id and no _rev; an _id and _rev 1
BulkDicts(a) ==
    {[val |-> a]} \cup
    {[val |-> a, _id |-> i] : i \in BulkIds} \cup
    {[val |-> a, _id |-> i, _rev |-> 1] : i \in BulkIds}

\* save_docs' is_id
is_id(d) == Has(d, "_id")

\* itertools.groupby(docs, is_id): the maximal runs of consecutive documents
\* with the same key, in order, as [k, g]
RECURSIVE groupby(_, _)
groupby(ds, h) ==
    IF ds = << >> THEN << >>
    ELSE LET rest == groupby(Tail(ds), h)
             k == is_id(h[Head(ds)])
         IN  IF rest # << >> /\ rest[1].k = k
             THEN <<[k |-> k, g |-> <<Head(ds)>> \o rest[1].g]>> \o Tail(rest)
             ELSE <<[k |-> k, g |-> <<Head(ds)>>]>> \o rest

\* lines 344-347: noids = []; for k, g in groupby: if not k: noids = list(g)
RECURSIVE noids_loop(_, _)
noids_loop(groups, acc) ==
    IF groups = << >> THEN acc
    ELSE noids_loop(Tail(groups),
                    IF ~Head(groups).k THEN Head(groups).g ELSE acc)

save_docs_noids(ds, h) == noids_loop(groupby(ds, h), << >>)

\* lines 354-356: the payload of POST /_bulk_docs
bulk_payload(ds, h, aon) ==
    IF aon
    THEN [k \in {"docs", "all-or-nothing"} |->
            IF k = "docs" THEN [i \in 1..Len(ds) |-> h[ds[i]]] ELSE TRUE]
    ELSE [k \in {"docs"} |-> [i \in 1..Len(ds) |-> h[ds[i]]]]

\* the server's handling of POST /_bulk_docs: the documents in order, each
\* accepted (always, with all-or-nothing) or refused with an error entry; a
\* document without _id gets one from the server
RECURSIVE bulk_serve(_, _, _, _)
bulk_serve(s, u, ds, aon) ==
    IF ds = << >> THEN [store |-> s, uuid |-> u, res |-> << >>]
    ELSE LET d == Head(ds)
             id == IF Has(d, "_id") THEN d["_id"] ELSE u + 1
             u1 == IF Has(d, "_id") THEN u ELSE u + 1
             ok == aon \/ Accepts(s, id, d)
             s1 == IF ok THEN Commit(s, id, d["val"], FALSE) ELSE s
             entry == IF ok THEN [id |-> id, rev |-> CurRev(s, id) + 1]
                      ELSE [id |-> id, error |-> "conflict",
                            reason |-> "Document update conflict."]
             rest == bulk_serve(s1, u1, Tail(ds), aon)
         IN  [store |-> rest.store, uuid |-> rest.uuid,
              res |-> <<entry>> \o rest.res]

\* line 364: 'error' in r
is_error(r) == Has(r, "error")

\* lines 362-365: errors, the entries with an error marker, in order
bulk_errors(res) == SelectSeq(res, is_error)

\* lines 367-368: docs[i].update({'_id': r['id'], '_rev': r['rev']})
entry_update(d, r) ==
    Update(d, [k \in {"_id", "_rev"} |-> IF k = "_id" THEN r.id ELSE r.rev])

\* mutant of save_docs_update: no document is updated when an entry failed
save_docs_update_unless_error(h, ds, res) ==
    [a \in DOMAIN h |->
        IF bulk_errors(res) = << >> /\ (\E i \in 1..Len(res) : ds[i] = a)
        THEN entry_update(h[a], res[CHOOSE i \in 1..Len(res) : ds[i] = a])
        ELSE h[a]]

\* lines 363-368: the loop over the response: every entry without error
\* marker updates the document at its index
save_docs_update(h, ds, res) ==
    [a \in DOMAIN h |->
        IF \E i \in 1..Len(res) : ds[i] = a /\ ~is_error(res[i])
        THEN entry_update(h[a],
                res[CHOOSE i \in 1..Len(res) : ds[i] = a /\ ~is_error(res[i])])
        ELSE h[a]]

\* mutant of BulkSaveError: the constructor of exceptions.py, (errors, *args)
BulkSaveError_first_arg(ds, errors) == [docs |-> << >>, errors |-> ds]

\* errors.py, BulkSaveError.__init__(self, docs, errors)
BulkSaveError(ds, errors) == [docs |-> ds, errors |-> errors]

\* DocumentSchema.to_json: the instance's own _doc (not a copy), with doc_type
\* set when it was missing
to_json(inst) == inst._doc

to_json_heap(h, inst) ==
    IF Has(h[inst._doc], "doc_type") THEN h
    ELSE [h EXCEPT ![inst._doc] = Set(@, "doc_type", inst._doc_type)]

BReq(method, path, status, payload) ==
    [m |-> method, path |-> path, status |-> status, payload |-> payload]

\* save_docs up to its first request: lines 343-347
save_docs_begin(ds, h, aon, uu) ==
    /\ docs' = ds
    /\ heap' = h
    /\ heap0' = heap
    /\ all_or_nothing' = aon
    /\ use_uuids' = uu
    /\ noids' = IF uu THEN save_docs_noids(ds, h) ELSE << >>
    /\ bk' = 1
    /\ bpc' = IF uu /\ save_docs_noids(ds, h) # << >> THEN "assign" ELSE "post"
    /\ UNCHANGED <<boutcome, berror, breqs, bres>>

\* Database.save_docs(docs, all_or_nothing, use_uuids) called with dicts
save_docs(aon, uu) ==
    /\ bpc = "idle"
    /\ save_docs_begin([i \in 1..Len(heap) |-> i], heap, aon, uu)
    /\ insts' = << >>
    /\ UNCHANGED <<store, srv_uuid, _uuids>>
    /\ UNCHANGED notBulk

RECURSIVE to_json_all(_, _)
to_json_all(h, is) ==
    IF is = << >> THEN h ELSE to_json_all(to_json_heap(h, Head(is)), Tail(is))

IsCls(inst) == inst._doc_type = Cls

\* Document.bulk_save(docs, use_uuids, all_or_nothing) on class Cls, with the
\* instance at `foreign` (if any) of another class
bulk_save(aon, uu, foreign) ==
    /\ bpc = "idle"
    /\ LET is == [i \in 1..Len(heap) |->
                    [_doc_type |-> IF i = foreign THEN OtherCls ELSE Cls, _doc |-> i]]
           same == SelectSeq(is, IsCls)
           docs_to_save == [i \in 1..Len(same) |-> to_json(same[i])]
       IN  /\ insts' = is
           /\ IF Len(docs_to_save) # Len(is)
              THEN /\ heap' = to_json_all(heap, same)
                   /\ heap0' = heap
                   /\ bpc' = "done"
                   /\ boutcome' = "ValueError"
                   /\ UNCHANGED <<docs, all_or_nothing, use_uuids, noids, bk,
                                  berror, breqs, bres>>
              ELSE save_docs_begin(docs_to_save, to_json_all(heap, same), aon, uu)
    /\ UNCHANGED <<store, srv_uuid, _uuids>>
    /\ UNCHANGED notBulk

\* lines 349-352: one turn of the loop over noids: nextid = self.uuids.next()
\* (refilling the pool when empty), doc['_id'] = nextid
save_docs_assign ==
    /\ bpc = "assign"
    /\ LET after == IF bk = Len(noids) THEN "post" ELSE "assign"
       IN  IF _uuids = << >>
           THEN \E status \in Statuses(StatusOk) :
                  /\ breqs' = Append(breqs, BReq("GET", "/_uuids", status, Empty))
                  /\ IF request(status) = "ok"
                     THEN /\ _uuids' = next_rest(fetch_uuids(_uuids, srv_uuid))
                          /\ srv_uuid' = srv_uuid + fetch_count(_uuids)
                          /\ heap' = [heap EXCEPT ![noids[bk]] =
                                Set(@, "_id", next_res(fetch_uuids(_uuids, srv_uuid)))]
                          /\ bk' = bk + 1
                          /\ bpc' = after
                          /\ UNCHANGED boutcome
                     ELSE /\ bpc' = "done"
                          /\ boutcome' = request(status)
                          /\ UNCHANGED <<_uuids, srv_uuid, heap, bk>>
           ELSE /\ _uuids' = next_rest(_uuids)
                /\ heap' = [heap EXCEPT ![noids[bk]] = Set(@, "_id", next_res(_uuids))]
                /\ bk' = bk + 1
                /\ bpc' = after
                /\ UNCHANGED <<breqs, srv_uuid, boutcome>>
    /\ UNCHANGED <<store, insts, docs, all_or_nothing, use_uuids, noids, berror,
                   heap0, bres>>
    /\ UNCHANGED notBulk

\* lines 354-371: the POST of the payload, the update of the documents from
\* the response, and BulkSaveError when an entry has an error marker
save_docs_post ==
    /\ bpc = "post"
    /\ bpc' = "done"
    /\ LET payload == bulk_payload(docs, heap, all_or_nothing)
           served == bulk_serve(store, srv_uuid, payload["docs"],
                                Has(payload, "all-or-nothing"))
       IN  \E status \in Statuses(StatusOk) :
             /\ breqs' = Append(breqs, BReq("POST", "/_bulk_docs", status, payload))
             /\ IF request(status) = "ok"
                THEN /\ store' = served.store
                     /\ srv_uuid' = served.uuid
                     /\ bres' = served.res
                     /\ heap' = save_docs_update(heap, docs, served.res)
                     /\ IF bulk_errors(served.res) # << >>
                        THEN /\ boutcome' = "BulkSaveError"
                             /\ berror' = BulkSaveError(docs, bulk_errors(served.res))
                        ELSE /\ boutcome' = "ok"
                             /\ UNCHANGED berror
                ELSE /\ boutcome' = request(status)
                     /\ UNCHANGED <<store, srv_uuid, bres, heap, berror>>
    /\ UNCHANGED <<_uuids, insts, docs, all_or_nothing, use_uuids, noids, bk, heap0>>
    /\ UNCHANGED notBulk

\* a database holding one document, a pool partly used, and the caller's list
\* of one to MaxDocs dicts
InitBulkPool == {[i \in 1..n |-> 2 + i] : n \in 0..(max_uuids - 1)}

BulkHeaps ==
    UNION {{h \in [1..n -> UNION {BulkDicts(a) : a \in 1..n}] :
                \A a \in 1..n : h[a] \in BulkDicts(a)} : n \in 1..MaxDocs}

InitB ==
    /\ store = BulkStore
    /\ _uuids \in InitBulkPool
    /\ srv_uuid = 2 + Len(_uuids)
    /\ heap \in BulkHeaps
    /\ doc = [val |-> ClientVal]
    /\ InitSave
    /\ InitBulk
    /\ InitDel
    /\ InitCopy
    /\ InitAtt
    /\ InitFlush
    /\ InitUuids
    /\ InitView
    /\ InitIdx
    /\ InitReq
    /\ InitCls
    /\ InitDoc

NextB ==
    \/ \E aon \in BOOLEAN, uu \in BOOLEAN : save_docs(aon, uu)
    \/ \E aon \in BOOLEAN, uu \in BOOLEAN, foreign \in 0..Len(heap) :
          bulk_save(aon, uu, foreign)
    \/ save_docs_assign
    \/ save_docs_post

SpecBulk == InitB /\ [][NextB]_vars

\* ------------------------------------------------------------- save_docs: claims
IsBulkPost(r) == r.path = "/_bulk_docs"

Posts == SelectSeq(breqs, IsBulkPost)

IsUuidGet(r) == r.path = "/_uuids"

UuidGets == SelectSeq(breqs, IsUuidGet)

BulkDone == bpc = "done"

\* the documents of the call that had no _id when it started
Idless0 == {a \in DOMAIN heap0 : ~Has(heap0[a], "_id")}

CeilDiv(n, d) == (n + d - 1) \div d

\* C7: with use_uuids, the bulk request never contains a document without
\* _id, wherever the id-less documents stand in the list, and a document that
\* had an _id is sent with it.
C7_EveryIdlessDocGetsId ==
    (use_uuids /\ Posts # << >>) =>
        LET sent == Posts[1].payload["docs"]
        IN  \A i \in 1..Len(sent) :
              /\ Has(sent[i], "_id")
              /\ Has(heap0[docs[i]], "_id") => sent[i]["_id"] = heap0[docs[i]]["_id"]

\* C8: a save_docs call issues at most one POST to /_bulk_docs, and exactly
\* one when identity assignment did not fail; it is the last request of the
\* call, after every request to /_uuids and after the loop over noids; its
\* body lists all input documents in input order and carries "all-or-nothing":
\* true exactly when all_or_nothing was passed; the requests to /_uuids number
\* at most ceil(N / max_uuids) for N id-less input documents.
C8_OneBulkPostAfterIds ==
    /\ Len(Posts) <= 1
    /\ Len(UuidGets) <= CeilDiv(Cardinality(Idless0), max_uuids)
    /\ (BulkDone /\ boutcome # "ValueError"
          /\ \A i \in 1..Len(UuidGets) : UuidGets[i].status = StatusOk) =>
            Len(Posts) = 1
    /\ Len(Posts) = 1 =>
          LET post == breqs[Len(breqs)]
              sent == post.payload["docs"]
          IN  /\ post.m = "POST" /\ IsBulkPost(post)
              /\ bk = Len(noids) + 1
              /\ Len(sent) = Len(heap0)
              /\ \A i \in 1..Len(sent) :
                    /\ sent[i]["val"] = heap0[i]["val"]
                    /\ \A k \in DOMAIN heap0[i] : sent[i][k] = heap0[i][k]
                    /\ (\E j \in 1..Len(noids) : noids[j] = docs[i]) =>
                          Has(sent[i], "_id")
              /\ Has(post.payload, "all-or-nothing") <=> all_or_nothing
              /\ Has(post.payload, "all-or-nothing") => post.payload["all-or-nothing"]

C8_Witness ==
    /\ BulkDone /\ Len(Posts) = 1 /\ all_or_nothing
    /\ Cardinality(Idless0) = 3
    /\ Len(UuidGets) = 2
    /\ \A i \in 1..3 : Has(Posts[1].payload["docs"][i], "_id")

\* C9: when POST /_bulk_docs is answered, for every index i of the response:
\* without error marker, document i has _id and _rev of entry i; with an error
\* marker, document i's _rev is what it was; the call raises BulkSaveError
\* exactly when some entry has an error marker, and the documents that
\* succeeded are updated then too; the dicts updated are the wire-forms of the
\* Document instances handed to bulk_save.
C9_BulkPartialFailure ==
    (BulkDone /\ Posts # << >> /\ Posts[1].status = StatusOk) =>
        /\ Len(bres) = Len(docs)
        /\ \A i \in 1..Len(bres) :
             LET d == heap[docs[i]]
                 d0 == heap0[docs[i]]
             IN  IF ~Has(bres[i], "error")
                 THEN /\ Has(d, "_id") /\ d["_id"] = bres[i].id
                      /\ Has(d, "_rev") /\ d["_rev"] = bres[i].rev
                 ELSE /\ Has(d, "_rev") <=> Has(d0, "_rev")
                      /\ Has(d, "_rev") => d["_rev"] = d0["_rev"]
        /\ (boutcome = "BulkSaveError") <=> (\E i \in 1..Len(bres) : Has(bres[i], "error"))
        /\ (boutcome = "ok") <=> (\A i \in 1..Len(bres) : ~Has(bres[i], "error"))
        /\ \A j \in 1..Len(insts) : insts[j]._doc = docs[j]

C9_Witness ==
    /\ BulkDone /\ boutcome = "BulkSaveError"
    /\ Len(insts) = 3
    /\ Has(bres[2], "error") /\ ~Has(bres[1], "error") /\ ~Has(bres[3], "error")
    /\ heap[insts[1]._doc]["_rev"] = bres[1].rev
    /\ ~Has(heap0[3], "_rev") /\ heap[insts[3]._doc]["_rev"] = bres[3].rev

\* C10: the BulkSaveError raised by save_docs holds the documents of the call
\* and, as its error list, exactly the response entries with an error marker,
\* in response order.
C10_BulkSaveErrorCarriesErrors ==
    (boutcome = "BulkSaveError") =>
        LET E == {i \in 1..Len(bres) : Has(bres[i], "error")}
            nth(k) == CHOOSE i \in E : Cardinality({j \in E : j < i}) = k - 1
        IN  /\ berror.docs = docs
            /\ Len(berror.errors) = Cardinality(E)
            /\ E # {}
            /\ \A k \in 1..Len(berror.errors) : berror.errors[k] = bres[nth(k)]

C10_Witness ==
    /\ boutcome = "BulkSaveError"
    /\ Len(docs) = 3
    /\ berror.errors = <<bres[2]>>
    /\ Has(bres[2], "error") /\ ~Has(bres[1], "error") /\ ~Has(bres[3], "error")
    /\ berror.docs = <<1, 2, 3>>
    /\ heap[1]["_rev"] = bres[1].rev /\ heap[3]["_rev"] = bres[3].rev

\* ------------------------------------------------------------- delete
\* the wire-forms delete is called with: never saved (with or without an id of
\* its own), or saved under some revision
DelDocs ==
    {[val |-> ClientVal]} \cup
    {[val |-> ClientVal, _id |-> i] : i \in 1..MaxGivenId} \cup
    {[val |-> ClientVal, _id |-> i, _rev |-> r] : i \in 1..MaxGivenId, r \in 1..2}

\* the database of the delete calls: document 1 is stored, at revision 1
DelStore == (1 :> [rev |-> 1, val |-> ClientVal, deleted |-> FALSE])

\* the two kinds of argument of delete_doc
StringArg(docid) == [str |-> docid, dict |-> Empty]

DictArg(d) == [str |-> 0, dict |-> d]

\* isinstance(id_or_doc, types.StringType)
IsStringType(arg) == arg.str # 0

\* dict.get(k): None (0) when the key is absent
Get(d, k) == IF Has(d, k) THEN d[k] ELSE 0

\* DocumentBase.new_document: self._doc.get('_rev') is None
new_document(d) == Get(d, "_rev") = 0

\* delete_doc's docid
delete_docid(arg) == IF IsStringType(arg) THEN arg.str ELSE Get(arg.dict, "_id")

\* the server's answer to DELETE docid?rev=r
DeleteStatus(s, id, r) ==
    IF ~Exists(s, id) THEN NotFoundStatus
    ELSE IF r = CurRev(s, id) THEN StatusOk
    ELSE ConflictStatus

\* mutant of reinit: the id is kept
reinit_rev_only(d) == [k \in DOMAIN d \ {"_rev"} |-> d[k]]

\* Document.delete, lines 507-508: del self._doc['_id']; del self._doc['_rev']
reinit(d) == [k \in DOMAIN d \ {"_id", "_rev"} |-> d[k]]

DRaise(exc) ==
    /\ dpc' = "done"
    /\ doutcome' = exc

\* the first statements of delete_doc, up to its first request.  In the dict
\* branch the revision is id_or_doc.get('_rev', self.last_rev(docid)): the
\* default is an argument of get, evaluated before get is called, so last_rev
\* is requested whether or not the document carries '_rev'.
delete_doc_begin(arg) ==
    /\ id_or_doc' = arg
    /\ dreqs' = << >>
    /\ drev' = 0
    /\ IF ~IsStringType(arg) /\ delete_docid(arg) = 0
       THEN DRaise("ValueError")
       ELSE dpc' = "last_rev" /\ doutcome' = "none"

\* Database.delete_doc(id_or_doc) called by the user
delete_doc(arg) ==
    /\ dpc = "idle"
    /\ dcalls < MaxCalls
    /\ dvia' = "delete_doc"
    /\ delete_doc_begin(arg)
    /\ self_doc' = Empty
    /\ self_doc0' = Empty
    /\ UNCHANGED <<store, _db, dcalls>>
    /\ UNCHANGED notDel

\* Document.delete() on an instance with wire-form d, lines 498-504
Document_delete(d, db) ==
    /\ dpc = "idle"
    /\ dcalls < MaxCalls
    /\ dvia' = "Document.delete"
    /\ self_doc' = d
    /\ self_doc0' = d
    /\ _db' = db
    /\ IF ~db \/ new_document(d)
       THEN /\ DRaise("TypeError")
            /\ dreqs' = << >>
            /\ drev' = 0
            /\ id_or_doc' = StringArg(0)
       ELSE delete_doc_begin(StringArg(Get(d, "_id")))
    /\ UNCHANGED <<store, dcalls>>
    /\ UNCHANGED notDel

\* lines 316 and 321: self.last_rev(docid), and the revision chosen
delete_doc_last_rev ==
    /\ dpc = "last_rev"
    /\ \E status \in Statuses(IF Exists(store, delete_docid(id_or_doc)) THEN StatusOk
                              ELSE NotFoundStatus) :
         /\ dreqs' = Append(dreqs, Req("HEAD", status, last_rev(store, delete_docid(id_or_doc))))
         /\ IF request(status) = "ok"
            THEN /\ drev' = IF ~IsStringType(id_or_doc) /\ Has(id_or_doc.dict, "_rev")
                           THEN id_or_doc.dict["_rev"]
                           ELSE last_rev(store, delete_docid(id_or_doc))
                 /\ dpc' = "delete"
                 /\ UNCHANGED doutcome
            ELSE /\ DRaise(request(status))
                 /\ UNCHANGED drev
    /\ UNCHANGED <<store, self_doc, _db, id_or_doc, dvia, self_doc0, dcalls>>
    /\ UNCHANGED notDel

\* lines 315 and 322: resp = self.delete(escape_docid(docid), rev=rev), and the
\* statements of Document.delete after the call
delete_doc_delete ==
    /\ dpc = "delete"
    /\ \E status \in Statuses(DeleteStatus(store, delete_docid(id_or_doc), drev)) :
         /\ dreqs' = Append(dreqs, Req("DELETE", status, drev))
         /\ IF request(status) = "ok"
            THEN /\ store' = Commit(store, delete_docid(id_or_doc), store[delete_docid(id_or_doc)].val, TRUE)
                 /\ self_doc' = IF dvia = "Document.delete" THEN reinit(self_doc)
                                ELSE self_doc
                 /\ DRaise("ok")
            ELSE /\ DRaise(request(status))
                 /\ UNCHANGED <<store, self_doc>>
    /\ UNCHANGED <<_db, id_or_doc, dvia, drev, self_doc0, dcalls>>
    /\ UNCHANGED notDel

\* the call is over: the caller has the result or the exception
delete_return ==
    /\ dpc = "done"
    /\ dpc' = "idle"
    /\ dcalls' = dcalls + 1
    /\ UNCHANGED <<store, self_doc, _db, id_or_doc, dvia, drev, doutcome, dreqs,
                   self_doc0>>
    /\ UNCHANGED notDel

InitD ==
    /\ store = DelStore
    /\ srv_uuid = 0
    /\ _uuids = << >>
    /\ doc = [val |-> ClientVal]
    /\ heap = << >>
    /\ InitSave
    /\ InitBulk
    /\ InitDel
    /\ InitCopy
    /\ InitAtt
    /\ InitFlush
    /\ InitUuids
    /\ InitView
    /\ InitIdx
    /\ InitReq
    /\ InitCls
    /\ InitDoc

NextD ==
    \/ \E i \in 1..MaxGivenId : delete_doc(StringArg(i))
    \/ \E d \in DelDocs : delete_doc(DictArg(d))
    \/ \E d \in DelDocs, db \in BOOLEAN : Document_delete(d, db)
    \/ delete_doc_last_rev
    \/ delete_doc_delete
    \/ delete_return
    \/ \E id \in 1..MaxGivenId, del \in BOOLEAN : OtherWriter(id, del)

SpecDel == InitD /\ [][NextD]_vars

\* ------------------------------------------------------------- delete: claims
IsDelete(r) == r.m = "DELETE"

DHeads == SelectSeq(dreqs, IsHead)

DDeletes == SelectSeq(dreqs, IsDelete)

DDone == dpc = "done"

\* C11: Document.delete on a saved document: when it returns, the wire-form
\* has neither _id nor _rev, new_document is true and the rest of the wire-form
\* is kept; when it raises (the revision lookup or the DELETE failed), the
\* wire-form is what it was; on a document without _rev it raises TypeError and
\* issues no request.
C11_DocumentDelete ==
    (DDone /\ dvia = "Document.delete") =>
        /\ doutcome = "ok" =>
              /\ ~Has(self_doc, "_id") /\ ~Has(self_doc, "_rev")
              /\ new_document(self_doc)
              /\ \A k \in DOMAIN self_doc0 \ {"_id", "_rev"} :
                    Has(self_doc, k) /\ self_doc[k] = self_doc0[k]
              /\ Len(DDeletes) = 1
              /\ dreqs[Len(dreqs)] = Req("DELETE", StatusOk, drev)
        /\ doutcome # "ok" => self_doc = self_doc0
        /\ ~Has(self_doc0, "_rev") => (doutcome = "TypeError" /\ dreqs = << >>)
        /\ (Has(self_doc0, "_rev") /\ _db) => dreqs # << >>

C11_Witness ==
    /\ DDone /\ dvia = "Document.delete" /\ doutcome = "ok"
    /\ Has(self_doc0, "_id") /\ Has(self_doc0, "_rev")
    /\ self_doc = [val |-> ClientVal]

\* C12: delete_doc looks the revision up only when it was not supplied: with a
\* bare id, one HEAD and then at most one DELETE carrying the revision of the
\* HEAD response; with a document carrying _rev, no HEAD and a DELETE carrying
\* that _rev; with a document without _id, ValueError and no request.
C12_RevisionDiscoveryOnlyWhenNeeded ==
    dvia = "delete_doc" =>
        /\ Len(DHeads) <= 1 /\ Len(DDeletes) <= 1
        /\ (IsStringType(id_or_doc) /\ DDeletes # << >>) =>
              /\ Len(dreqs) = 2 /\ IsHead(dreqs[1])
              /\ dreqs[2].rev = dreqs[1].rev
        /\ (~IsStringType(id_or_doc) /\ Has(id_or_doc.dict, "_rev")) =>
              /\ DHeads = << >>
              /\ DDeletes # << >> => DDeletes[1].rev = id_or_doc.dict["_rev"]
        /\ (DDone /\ ~IsStringType(id_or_doc) /\ ~Has(id_or_doc.dict, "_id")) =>
              (doutcome = "ValueError" /\ dreqs = << >>)

\* C36: Document.delete deletes only the revision the instance holds: when it
\* returns, the revision its DELETE carried is the _rev of the instance, so
\* that a document another writer has updated since is not deleted.
C36_DeleteGuarded ==
    (DDone /\ dvia = "Document.delete" /\ doutcome = "ok") =>
        /\ drev = self_doc0["_rev"]
        /\ DDeletes[1].rev = self_doc0["_rev"]

\* ------------------------------------------------------------- copy_doc
\* the three kinds of argument dest
DestNone == [str |-> 0, dict |-> Empty, kind |-> "None"]

DestString(id) == [str |-> id, dict |-> Empty, kind |-> "str"]

DestDict(d) == [str |-> 0, dict |-> d, kind |-> "dict"]

\* the dicts handed over as dest: with or without _id, with or without _rev
DestDicts ==
    {[val |-> ClientVal]} \cup
    {[val |-> ClientVal, _rev |-> r] : r \in 1..2} \cup
    {[val |-> ClientVal, _id |-> i] : i \in 1..MaxGivenId} \cup
    {[val |-> ClientVal, _id |-> i, _rev |-> r] : i \in 1..MaxGivenId, r \in 1..2}

\* the dicts handed over as id_or_doc: without and with _id
CopySources == {[val |-> ClientVal], [val |-> ClientVal, _id |-> 1]}

\* mutant of guarded: the revision is left out of the Destination header
guarded_none(id, r) == [id |-> id, rev |-> 0]

\* lines 505 and 510: destination = "%s?rev=%s" % (id, rev)
guarded(id, r) == [id |-> id, rev |-> r]

\* lines 501 and 507: destination = the id alone
unguarded(id) == [id |-> id, rev |-> 0]

\* the body a COPY with this Destination amounts to at the destination
CopyBody(dst) == IF dst.rev = 0 THEN Empty ELSE [n \in {"_rev"} |-> dst.rev]

\* the server's answer to COPY /docid with header Destination
CopyStatus(s, id, dst) ==
    IF ~Exists(s, id) THEN NotFoundStatus
    ELSE IF Accepts(s, dst.id, CopyBody(dst)) THEN StatusOk
    ELSE ConflictStatus

\* the server's answer to GET /docid: the status, and the document as stored
GetStatus(s, id) == IF Exists(s, id) THEN StatusOk ELSE NotFoundStatus

GetBody(s, id) == [k \in {"_id", "_rev", "val"} |->
                      IF k = "_id" THEN id ELSE IF k = "_rev" THEN s[id].rev
                      ELSE s[id].val]

CReq(method, status, dst, r) == [m |-> method, status |-> status, dst |-> dst, rev |-> r]

CRaise(exc) ==
    /\ cpc' = "done"
    /\ coutcome' = exc

\* copy_doc(id_or_doc, dest), lines 493-513, up to its first request
copy_doc(src, dst) ==
    /\ cpc = "idle"
    /\ ccalls < MaxCopies
    /\ csrc' = src
    /\ dest' = dst
    /\ creqs' = << >>
    /\ cresult' = Empty
    /\ IF ~IsStringType(src) /\ ~Has(src.dict, "_id")
       THEN /\ CRaise("KeyError")
            /\ destination' = unguarded(0)
            /\ destid' = 0
       ELSE IF dst.kind = "None"
       THEN /\ cpc' = "uuids_next" /\ coutcome' = "none"
            /\ destination' = unguarded(0)
            /\ destid' = 0
       ELSE IF dst.kind = "str"
       THEN /\ cpc' = "last_rev" /\ coutcome' = "none"
            /\ destination' = unguarded(0)
            /\ destid' = 0
       ELSE IF Has(dst.dict, "_id") /\ Has(dst.dict, "_rev")
       THEN /\ cpc' = "copy" /\ coutcome' = "none"
            /\ destination' = guarded(dst.dict["_id"], dst.dict["_rev"])
            /\ destid' = dst.dict["_id"]
       ELSE /\ CRaise("ValueError")
            /\ destination' = unguarded(0)
            /\ destid' = 0
    /\ UNCHANGED <<store, srv_uuid, _uuids, ccalls>>
    /\ UNCHANGED notCopy

\* line 501: destid = destination = self.uuids.next(), refilling an empty pool
copy_doc_uuids_next ==
    /\ cpc = "uuids_next"
    /\ IF _uuids = << >>
       THEN \E status \in Statuses(StatusOk) :
              /\ creqs' = Append(creqs, CReq("GET /_uuids", status, unguarded(0), 0))
              /\ IF request(status) = "ok"
                 THEN /\ _uuids' = next_rest(fetch_uuids(_uuids, srv_uuid))
                      /\ srv_uuid' = srv_uuid + fetch_count(_uuids)
                      /\ destination' = unguarded(next_res(fetch_uuids(_uuids, srv_uuid)))
                      /\ destid' = next_res(fetch_uuids(_uuids, srv_uuid))
                      /\ cpc' = "copy"
                      /\ UNCHANGED coutcome
                 ELSE /\ CRaise(request(status))
                      /\ UNCHANGED <<_uuids, srv_uuid, destination, destid>>
       ELSE /\ _uuids' = next_rest(_uuids)
            /\ destination' = unguarded(next_res(_uuids))
            /\ destid' = next_res(_uuids)
            /\ cpc' = "copy"
            /\ UNCHANGED <<creqs, srv_uuid, coutcome>>
    /\ UNCHANGED <<store, csrc, dest, cresult, ccalls>>
    /\ UNCHANGED notCopy

\* lines 503-508: rev = self.last_rev(dest), ResourceNotFound handled
copy_doc_last_rev ==
    /\ cpc = "last_rev"
    /\ \E status \in Statuses(IF Exists(store, dest.str) THEN StatusOk
                              ELSE NotFoundStatus) :
         /\ creqs' = Append(creqs, CReq("HEAD", status, unguarded(dest.str),
                                        last_rev(store, dest.str)))
         /\ IF request(status) = "ok"
            THEN /\ destination' = guarded(dest.str, last_rev(store, dest.str))
                 /\ destid' = dest.str
                 /\ cpc' = "copy"
                 /\ UNCHANGED coutcome
            ELSE IF request(status) = "ResourceNotFound"
            THEN /\ destination' = unguarded(dest.str)
                 /\ destid' = dest.str
                 /\ cpc' = "copy"
                 /\ UNCHANGED coutcome
            ELSE /\ CRaise(request(status))
                 /\ UNCHANGED <<destination, destid>>
    /\ UNCHANGED <<store, srv_uuid, _uuids, csrc, dest, cresult, ccalls>>
    /\ UNCHANGED notCopy

\* lines 515-516: self.copy('/%s' % docid, headers={"Destination": destination})
copy_doc_copy ==
    /\ cpc = "copy"
    /\ \E status \in Statuses(CopyStatus(store, delete_docid(csrc), destination)) :
         /\ creqs' = Append(creqs, CReq("COPY", status, destination, 0))
         /\ IF request(status) = "ok"
            THEN /\ store' = Commit(store, destination.id,
                                    store[delete_docid(csrc)].val, FALSE)
                 /\ cpc' = "open_doc"
                 /\ UNCHANGED coutcome
            ELSE /\ CRaise(request(status))
                 /\ UNCHANGED store
    /\ UNCHANGED <<srv_uuid, _uuids, csrc, dest, destination, destid, cresult, ccalls>>
    /\ UNCHANGED notCopy

\* line 517: return self.open_doc(destid)
copy_doc_open_doc ==
    /\ cpc = "open_doc"
    /\ \E status \in Statuses(GetStatus(store, destid)) :
         /\ creqs' = Append(creqs, CReq("GET", status, unguarded(destid),
                                        last_rev(store, destid)))
         /\ IF request(status) = "ok"
            THEN /\ cresult' = GetBody(store, destid)
                 /\ CRaise("ok")
            ELSE /\ CRaise(request(status))
                 /\ UNCHANGED cresult
    /\ UNCHANGED <<store, srv_uuid, _uuids, csrc, dest, destination, destid, ccalls>>
    /\ UNCHANGED notCopy

\* the call is over: the caller has the result or the exception
copy_doc_return ==
    /\ cpc = "done"
    /\ cpc' = "idle"
    /\ ccalls' = ccalls + 1
    /\ UNCHANGED <<store, srv_uuid, _uuids, csrc, dest, destination, destid,
                   coutcome, cresult, creqs>>
    /\ UNCHANGED notCopy

\* the database holds document 1; the pool is empty or holds one token, and
\* the tokens lie beyond the ids callers choose
InitCopyPool == {[i \in 1..n |-> MaxGivenId + i] : n \in 0..1}

InitC ==
    /\ store = DelStore
    /\ _uuids \in InitCopyPool
    /\ srv_uuid = MaxGivenId + Len(_uuids)
    /\ doc = [val |-> ClientVal]
    /\ heap = << >>
    /\ InitSave
    /\ InitBulk
    /\ InitDel
    /\ InitCopy
    /\ InitAtt
    /\ InitFlush
    /\ InitUuids
    /\ InitView
    /\ InitIdx
    /\ InitReq
    /\ InitCls
    /\ InitDoc

NextC ==
    \/ \E i \in 1..MaxGivenId : copy_doc(StringArg(i), DestNone)
    \/ \E i \in 1..MaxGivenId, j \in 1..MaxGivenId : copy_doc(StringArg(i), DestString(j))
    \/ \E d \in CopySources, dd \in DestDicts : copy_doc(DictArg(d), DestDict(dd))
    \/ copy_doc_uuids_next
    \/ copy_doc_last_rev
    \/ copy_doc_copy
    \/ copy_doc_open_doc
    \/ copy_doc_return
    \/ \E id \in 1..MaxGivenId, del \in BOOLEAN : OtherWriter(id, del)

SpecCopy == InitC /\ [][NextC]_vars

\* ------------------------------------------------------------- copy_doc: claims
IsCopy(r) == r.m = "COPY"

Copies == SelectSeq(creqs, IsCopy)

CHeads == SelectSeq(creqs, IsHead)

CDone == cpc = "done"

\* C13: copy_doc issues at most one COPY.  Its Destination is: for dest None,
\* a token taken out of the pool, without revision; for a dest dict with _id
\* and _rev, that id guarded by that _rev; for a dest string, that id guarded
\* by the revision the HEAD of it returned, or without revision when the HEAD
\* answered not-found.  Any other dest raises ValueError with no request.  A
\* call that returns has re-fetched the destination after the COPY, and its
\* result carries the destination id and the revision the server had for it
\* at the fetch (its revision now, when no other writer acted).
C13_CopyDestination ==
    /\ Len(Copies) <= 1
    /\ Copies # << >> =>
          LET dst == Copies[1].dst
          IN  /\ dest.kind = "None" =>
                    /\ dst.rev = 0
                    /\ dst.id > MaxGivenId /\ dst.id <= srv_uuid
                    /\ \A i \in 1..Len(_uuids) : _uuids[i] # dst.id
              /\ dest.kind = "dict" =>
                    dst = [id |-> dest.dict["_id"], rev |-> dest.dict["_rev"]]
              /\ dest.kind = "str" =>
                    /\ Len(CHeads) = 1 /\ IsHead(creqs[1]) /\ dst.id = dest.str
                    /\ creqs[1].status = StatusOk => dst.rev = creqs[1].rev
                    /\ creqs[1].status = NotFoundStatus => dst.rev = 0
                    /\ creqs[1].status \in {StatusOk, NotFoundStatus}
    /\ (CDone /\ Has(csrc.dict, "_id") /\ dest.kind = "dict"
          /\ ~(Has(dest.dict, "_id") /\ Has(dest.dict, "_rev"))) =>
            (coutcome = "ValueError" /\ creqs = << >>)
    /\ (CDone /\ coutcome = "ok") =>
          /\ Len(Copies) = 1 /\ Copies[1].status = StatusOk
          /\ Len(creqs) >= 2
          /\ IsCopy(creqs[Len(creqs) - 1])
          /\ creqs[Len(creqs)].m = "GET" /\ creqs[Len(creqs)].status = StatusOk
          /\ cresult["_id"] = Copies[1].dst.id
          /\ cresult["_id"] = destid
          /\ cresult["_rev"] = creqs[Len(creqs)].rev
          /\ cresult["_rev"] >= 1
          /\ others = 0 =>
                /\ cresult["_rev"] = CurRev(store, destid)
                /\ cresult["val"] = store[delete_docid(csrc)].val

C13_Witness ==
    /\ CDone /\ coutcome = "ok" /\ dest.kind = "str"
    /\ creqs[1].status = StatusOk /\ creqs[1].rev >= 1
    /\ Copies[1].dst = [id |-> dest.str, rev |-> creqs[1].rev]
    /\ cresult["_rev"] = creqs[1].rev + 1

\* ------------------------------------------------------------- attachments
\* the database of the attachment calls: document 1 is stored, at revision 2
AttStore == (1 :> [rev |-> 2, val |-> ClientVal, deleted |-> FALSE])

\* the caller's document: saved (under the current revision or an older one),
\* or never saved
AttDocs ==
    {[val |-> ClientVal, _id |-> 1]} \cup
    {[val |-> ClientVal, _id |-> 1, _rev |-> r] : r \in 1..2}

\* the server's answer to PUT or DELETE docid/name?rev=r: the attachment
\* changes under the document's current revision only
AttachmentStatus(s, id, r) ==
    IF Exists(s, id) /\ r = CurRev(s, id) THEN StatusOk
    ELSE IF Exists(s, id) THEN ConflictStatus
    ELSE NotFoundStatus

\* mutant of attachment_merge: the fetched document is dropped
attachment_merge_none(d, fetched) == d

\* lines 422 and 436: doc.update(self.open_doc(doc['_id']))
attachment_merge(d, fetched) == Update(d, fetched)

ARaise(exc) ==
    /\ apc' = "done"
    /\ aoutcome' = exc
    /\ a_others' = others
    /\ a_calls' = calls

attachment_begin(named) ==
    /\ apc = "idle"
    /\ pc = "idle"
    /\ acalls < MaxCalls
    /\ adoc0' = doc
    /\ areqs' = << >>
    /\ IF ~named
       THEN ARaise("InvalidAttachment")
       ELSE IF ~Has(doc, "_id") \/ ~Has(doc, "_rev")
       THEN ARaise("KeyError")
       ELSE apc' = "request" /\ aoutcome' = "none" /\ UNCHANGED <<a_others, a_calls>>
    /\ UNCHANGED <<store, acalls>>
    /\ UNCHANGED saveVars
    /\ UNCHANGED notAtt

\* put_attachment(doc, content, name), lines 407-418, up to its request;
\* `named`: a name was given or the content has one
put_attachment(named) ==
    /\ aop' = "put_attachment"
    /\ attachment_begin(named)

\* delete_attachment(doc, name), line 433, up to its request
delete_attachment ==
    /\ aop' = "delete_attachment"
    /\ attachment_begin(TRUE)

\* lines 417-418 and 434-435: self.put / self.delete of docid/name with
\* rev=doc['_rev']
attachment_request ==
    /\ apc = "request"
    /\ \E status \in Statuses(AttachmentStatus(store, doc["_id"], doc["_rev"])) :
         /\ areqs' = Append(areqs,
               Req(IF aop = "put_attachment" THEN "PUT" ELSE "DELETE", status, doc["_rev"]))
         /\ IF request(status) = "ok"
            THEN /\ store' = Commit(store, doc["_id"], store[doc["_id"]].val, FALSE)
                 /\ apc' = "open_doc"
                 /\ UNCHANGED <<aoutcome, a_others, a_calls>>
            ELSE /\ ARaise(request(status))
                 /\ UNCHANGED store
    /\ UNCHANGED <<aop, adoc0, acalls>>
    /\ UNCHANGED saveVars
    /\ UNCHANGED notAtt

\* lines 422 and 436: return doc.update(self.open_doc(doc['_id']))
attachment_open_doc ==
    /\ apc = "open_doc"
    /\ \E status \in Statuses(GetStatus(store, doc["_id"])) :
         /\ areqs' = Append(areqs, Req("GET", status, last_rev(store, doc["_id"])))
         /\ IF request(status) = "ok"
            THEN /\ doc' = attachment_merge(doc, GetBody(store, doc["_id"]))
                 /\ ARaise("ok")
            ELSE /\ ARaise(request(status))
                 /\ UNCHANGED doc
    /\ UNCHANGED <<store, aop, adoc0, acalls>>
    /\ UNCHANGED <<pc, force_update, json_doc, outcome, doc0, stale0, reqs,
                   json_res, commits, interf, calls, others>>
    /\ UNCHANGED notAtt

\* the call is over: the caller has the result or the exception
attachment_return ==
    /\ apc = "done"
    /\ apc' = "idle"
    /\ acalls' = acalls + 1
    /\ UNCHANGED <<store, aop, aoutcome, areqs, adoc0, a_others, a_calls>>
    /\ UNCHANGED saveVars
    /\ UNCHANGED notAtt

InitA ==
    /\ store = AttStore
    /\ srv_uuid = 0
    /\ _uuids = << >>
    /\ doc \in AttDocs
    /\ heap = << >>
    /\ InitSave
    /\ InitBulk
    /\ InitDel
    /\ InitCopy
    /\ InitAtt
    /\ InitFlush
    /\ InitUuids
    /\ InitView
    /\ InitIdx
    /\ InitReq
    /\ InitCls
    /\ InitDoc

\* the caller alternates attachment calls and save_doc calls on its document
NextA ==
    \/ \E named \in BOOLEAN : put_attachment(named)
    \/ delete_attachment
    \/ attachment_request
    \/ attachment_open_doc
    \/ attachment_return
    \/ (apc = "idle" /\ save_doc(FALSE))
    \/ save_doc_put
    \/ save_doc_return
    \/ \E del \in BOOLEAN : OtherWriter(1, del)

SpecAtt == InitA /\ [][NextA]_vars

\* ------------------------------------------------------------- attachments: claims
ADone == apc = "done"

\* C14: the attachment request carries the caller's _rev; a call that returns
\* has issued that request and then a GET of the document, and leaves the
\* caller's _rev at the revision the server had at the GET, which is the
\* server's current revision as long as no other writer acts; a save_doc of the
\* document following the call, with no other writer since the call ended,
\* raises no conflict (and succeeds unless the transport fails); when the
\* attachment request fails, the caller's document is what it was.
C14_AttachmentRefreshesRev ==
    /\ (areqs # << >>) =>
          /\ areqs[1].m = (IF aop = "put_attachment" THEN "PUT" ELSE "DELETE")
          /\ areqs[1].rev = adoc0["_rev"]
    /\ (ADone /\ aoutcome = "ok") =>
          /\ Len(areqs) = 2
          /\ areqs[1].status = StatusOk
          /\ areqs[2] = Req("GET", StatusOk, doc["_rev"])
          /\ doc["_id"] = adoc0["_id"]
          /\ others = a_others =>
                /\ doc["_rev"] = CurRev(store, doc["_id"])
                /\ Accepts(store, doc["_id"], doc)
    /\ (ADone /\ areqs # << >> /\ areqs[1].status # StatusOk) =>
          /\ doc = adoc0
          /\ aoutcome # "ok"
          /\ Len(areqs) = 1
    /\ (pc = "done" /\ apc = "idle" /\ aoutcome = "ok" /\ calls = a_calls
          /\ others = a_others) =>
          /\ outcome # "ResourceConflict"
          /\ NoTransportError => outcome = "ok"

C14_Witness ==
    /\ pc = "done" /\ apc = "idle" /\ aoutcome = "ok" /\ calls = a_calls
    /\ others = a_others
    /\ aop = "delete_attachment"
    /\ outcome = "ok"
    /\ doc["_rev"] = adoc0["_rev"] + 2

\* ------------------------------------------------------------- flush
\* Document ids in collation order: the ids of design documents ("_design/...")
\* come first, then two ordinary documents.
FlushIds == 1..(MaxDesign + 2)

\* line 542-543: startkey="_design", endkey="_design/" + u"\u9999": the first
\* and the last key of the range
startkey == 1

endkey == MaxDesign

\* the server's answer to GET _all_docs?startkey=..&endkey=..&include_docs=true:
\* one row for each stored document whose id is in the range, in key order
all_docs(s, params) ==
    LET ids == [i \in FlushIds |-> i]
        InRange(i) == /\ Exists(s, i)
                      /\ i >= params["startkey"] /\ i <= params["endkey"]
        hits == SelectSeq(ids, InRange)
    IN  [rows |-> [k \in 1..Len(hits) |->
            IF params["include_docs"]
            THEN [id |-> hits[k], key |-> hits[k], doc |-> GetBody(s, hits[k])]
            ELSE [id |-> hits[k], key |-> hits[k], doc |-> Empty]]]

\* mutant of pop_rev: the revision stays in the document
pop_rev_kept(d) == d

\* line 547: ddoc['doc'].pop('_rev')
pop_rev(d) == [k \in DOMAIN d \ {"_rev"} |-> d[k]]

\* lines 545-548: the loop over the rows
flush_ddocs(res) == [k \in 1..Len(res.rows) |-> pop_rev(res.rows[k].doc)]

\* lines 542-544: the parameters of the read
flush_params == [startkey |-> startkey, endkey |-> endkey, include_docs |-> TRUE]

FReq(method, path, status, payload) ==
    [m |-> method, path |-> path, status |-> status, payload |-> payload]

FRaise(exc) ==
    /\ fpc' = "done"
    /\ foutcome' = exc

\* Database.flush(), up to its first request
flush ==
    /\ fpc = "idle"
    /\ db_exists
    /\ fpc' = "all_docs"
    /\ foutcome' = "none"
    /\ freqs' = << >>
    /\ ddocs' = << >>
    /\ store0' = store
    /\ fothers0' = fothers
    /\ UNCHANGED <<store, srv_uuid, db_exists, fothers>>
    /\ UNCHANGED notFlush

\* lines 542-548: the iteration over all_docs (one GET) and the loop
flush_all_docs ==
    /\ fpc = "all_docs"
    /\ \E status \in Statuses(IF db_exists THEN StatusOk ELSE NotFoundStatus) :
         /\ freqs' = Append(freqs, FReq("GET", "_all_docs", status, flush_params))
         /\ IF request(status) = "ok"
            THEN /\ ddocs' = flush_ddocs(all_docs(store, flush_params))
                 /\ fpc' = "delete"
                 /\ UNCHANGED foutcome
            ELSE /\ FRaise(request(status))
                 /\ UNCHANGED ddocs
    /\ UNCHANGED <<store, srv_uuid, db_exists, store0, fothers, fothers0>>
    /\ UNCHANGED notFlush

\* line 551: self.delete(), the database and every document in it
flush_delete ==
    /\ fpc = "delete"
    /\ \E status \in Statuses(IF db_exists THEN StatusOk ELSE NotFoundStatus) :
         /\ freqs' = Append(freqs, FReq("DELETE", "", status, Empty))
         /\ IF request(status) = "ok"
            THEN /\ store' = << >>
                 /\ db_exists' = FALSE
                 /\ fpc' = "put"
                 /\ UNCHANGED foutcome
            ELSE /\ FRaise(request(status))
                 /\ UNCHANGED <<store, db_exists>>
    /\ UNCHANGED <<srv_uuid, ddocs, store0, fothers, fothers0>>
    /\ UNCHANGED notFlush

\* lines 554-557: time.sleep(0.2); self.put()
flush_put ==
    /\ fpc = "put"
    /\ \E status \in Statuses(IF db_exists THEN ConflictStatus ELSE StatusOk) :
         /\ freqs' = Append(freqs, FReq("PUT", "", status, Empty))
         /\ IF request(status) = "ok"
            THEN /\ db_exists' = TRUE
                 /\ fpc' = "save_docs"
                 /\ UNCHANGED foutcome
            ELSE /\ FRaise(request(status))
                 /\ UNCHANGED db_exists
    /\ UNCHANGED <<store, srv_uuid, ddocs, store0, fothers, fothers0>>
    /\ UNCHANGED notFlush

\* line 558: self.save_docs(ddocs): every document has an _id, so no token is
\* taken; one POST /_bulk_docs, the update of ddocs, BulkSaveError on an error
flush_save_docs ==
    /\ fpc = "save_docs"
    /\ LET ds == [i \in 1..Len(ddocs) |-> i]
           payload == bulk_payload(ds, ddocs, FALSE)
           served == bulk_serve(store, srv_uuid, payload["docs"],
                                Has(payload, "all-or-nothing"))
       IN  /\ save_docs_noids(ds, ddocs) = << >>
           /\ \E status \in Statuses(IF db_exists THEN StatusOk ELSE NotFoundStatus) :
                /\ freqs' = Append(freqs, FReq("POST", "/_bulk_docs", status, payload))
                /\ IF request(status) = "ok"
                   THEN /\ store' = served.store
                        /\ srv_uuid' = served.uuid
                        /\ ddocs' = save_docs_update(ddocs, ds, served.res)
                        /\ FRaise(IF bulk_errors(served.res) # << >>
                                  THEN "BulkSaveError" ELSE "ok")
                   ELSE /\ FRaise(request(status))
                        /\ UNCHANGED <<store, srv_uuid, ddocs>>
    /\ UNCHANGED <<db_exists, store0, fothers, fothers0>>
    /\ UNCHANGED notFlush

\* the call is over: the caller has the result or the exception
flush_return ==
    /\ fpc = "done"
    /\ fpc' = "idle"
    /\ UNCHANGED <<store, srv_uuid, db_exists, ddocs, foutcome, freqs, store0, fothers,
                   fothers0>>
    /\ UNCHANGED notFlush

\* another client writes a document of the database
FlushOtherWriter(id) ==
    /\ db_exists
    /\ fothers < MaxOther
    /\ store' = Commit(store, id, OtherVal, FALSE)
    /\ fothers' = fothers + 1
    /\ UNCHANGED <<srv_uuid, db_exists, fpc, ddocs, foutcome, freqs, store0, fothers0>>
    /\ UNCHANGED notFlush

\* the databases flush is called on: any set of documents, each at its first
\* or second revision
FlushStores ==
    UNION {[ids -> {[rev |-> r, val |-> ClientVal, deleted |-> FALSE] : r \in 1..2}] :
                ids \in SUBSET FlushIds}

InitF ==
    /\ store \in FlushStores
    /\ srv_uuid = 0
    /\ _uuids = << >>
    /\ doc = [val |-> ClientVal]
    /\ heap = << >>
    /\ InitSave
    /\ InitBulk
    /\ InitDel
    /\ InitCopy
    /\ InitAtt
    /\ InitFlush
    /\ InitUuids
    /\ InitView
    /\ InitIdx
    /\ InitReq
    /\ InitCls
    /\ InitDoc

NextF ==
    \/ flush
    \/ flush_all_docs
    \/ flush_delete
    \/ flush_put
    \/ flush_save_docs
    \/ flush_return
    \/ \E id \in FlushIds : FlushOtherWriter(id)

SpecFlush == InitF /\ [][NextF]_vars

\* ------------------------------------------------------------- flush: claims
FDone == fpc = "done"

\* the design documents of a database
DesignDocs(s) == {i \in DOMAIN s : Exists(s, i) /\ i >= startkey /\ i <= endkey}

\* the requests of a complete flush, in order
FlushOrder == <<[m |-> "GET", path |-> "_all_docs"], [m |-> "DELETE", path |-> ""],
                [m |-> "PUT", path |-> ""], [m |-> "POST", path |-> "/_bulk_docs"]>>

\* C15: the requests of flush are, in order, the read of the design key range
\* with include_docs, the deletion of the database, its creation and the bulk
\* save, each issued only after the one before succeeded; the bulk save carries
\* the design documents read, without _rev; when all four succeed and no other
\* client wrote during the call, the database holds exactly the design
\* documents it held when the call started, with their content, and nothing
\* else.
C15_FlushKeepsDesignDocs ==
    /\ Len(freqs) <= 4
    /\ \A i \in 1..Len(freqs) :
          /\ freqs[i].m = FlushOrder[i].m /\ freqs[i].path = FlushOrder[i].path
          /\ i < Len(freqs) => freqs[i].status = StatusOk
    /\ freqs # << >> =>
          freqs[1].payload = [startkey |-> startkey, endkey |-> endkey,
                              include_docs |-> TRUE]
    /\ Len(freqs) = 4 =>
          LET sent == freqs[4].payload["docs"]
          IN  /\ DOMAIN freqs[4].payload = {"docs"}
              /\ \A k \in 1..Len(sent) : ~Has(sent[k], "_rev") /\ Has(sent[k], "_id")
              /\ fothers = fothers0 =>
                    /\ {sent[k]["_id"] : k \in 1..Len(sent)} = DesignDocs(store0)
                    /\ Len(sent) = Cardinality(DesignDocs(store0))
                    /\ \A k \in 1..Len(sent) :
                          sent[k]["val"] = store0[sent[k]["_id"]].val
    /\ (FDone /\ foutcome = "ok") => Len(freqs) = 4
    /\ (FDone /\ Len(freqs) = 4 /\ freqs[4].status = StatusOk /\ fothers = fothers0) =>
          /\ foutcome = "ok"
          /\ db_exists
          /\ DOMAIN store = DesignDocs(store0)
          /\ \A i \in DOMAIN store :
                /\ Exists(store, i)
                /\ store[i].val = store0[i].val

C15_Witness ==
    /\ FDone /\ foutcome = "ok" /\ fothers = fothers0
    /\ Cardinality(DOMAIN store0) = MaxDesign + 2
    /\ DOMAIN store = 1..MaxDesign
    /\ \A i \in DOMAIN store : store[i].rev = 1 /\ store0[i].rev = 2

\* ------------------------------------------------------------- Uuids.next
\* Uuids.next and Uuids.fetch_uuids statement by statement, for requesters
\* sharing one Uuids object.  Each read of self._uuids, each store to it and
\* the request are steps of their own; the in-place `+=` on the list is one
\* step.  The server never returns a token twice (ServerUuids).
UCall(t, token, exc) == [t |-> t, len0 |-> ulen0[t], token |-> token, exc |-> exc]

UReq(t, n, len, status) == [t |-> t, count |-> n, len |-> len, status |-> status]

\* a requester calls next()
next_call(t) ==
    /\ upc[t] = "idle"
    /\ Len(ucalls) + Cardinality({u \in Requesters : upc[u] # "idle"}) < MaxNext
    /\ upc' = [upc EXCEPT ![t] = "test"]
    /\ ulen0' = [ulen0 EXCEPT ![t] = Len(_uuids)]
    /\ UNCHANGED <<_uuids, srv_uuid, ucount, resp_uuids, urest, ures, ureqs, ucalls,
                   pool_max>>
    /\ UNCHANGED notUuids

\* line 59: if not self._uuids
next_test(t) ==
    /\ upc[t] = "test"
    /\ upc' = [upc EXCEPT ![t] = IF _uuids = << >> THEN "fetch_count" ELSE "slice"]
    /\ UNCHANGED <<_uuids, srv_uuid, ucount, resp_uuids, urest, ures, ulen0, ureqs,
                   ucalls, pool_max>>
    /\ UNCHANGED notUuids

\* line 68: count = self.max_uuids - len(self._uuids)
fetch_uuids_count(t) ==
    /\ upc[t] = "fetch_count"
    /\ ucount' = [ucount EXCEPT ![t] = fetch_count(_uuids)]
    /\ upc' = [upc EXCEPT ![t] = "get"]
    /\ UNCHANGED <<_uuids, srv_uuid, resp_uuids, urest, ures, ulen0, ureqs, ucalls,
                   pool_max>>
    /\ UNCHANGED notUuids

\* line 69: resp = self.get('/_uuids', count=count)
fetch_uuids_get(t) ==
    /\ upc[t] = "get"
    /\ \E status \in Statuses(StatusOk) :
         /\ ureqs' = Append(ureqs, UReq(t, ucount[t], Len(_uuids), status))
         /\ IF request(status) = "ok"
            THEN /\ resp_uuids' = [resp_uuids EXCEPT ![t] = ServerUuids(srv_uuid, ucount[t])]
                 /\ srv_uuid' = srv_uuid + Len(ServerUuids(srv_uuid, ucount[t]))
                 /\ upc' = [upc EXCEPT ![t] = "iadd"]
                 /\ UNCHANGED ucalls
            ELSE /\ ucalls' = Append(ucalls, UCall(t, 0, request(status)))
                 /\ upc' = [upc EXCEPT ![t] = "idle"]
                 /\ UNCHANGED <<resp_uuids, srv_uuid>>
    /\ UNCHANGED <<_uuids, ucount, urest, ures, ulen0, pool_max>>
    /\ UNCHANGED notUuids

\* line 70: self._uuids += resp.json_body['uuids']
fetch_uuids_iadd(t) ==
    /\ upc[t] = "iadd"
    /\ _uuids' = _uuids \o resp_uuids[t]
    /\ pool_max' = IF Len(_uuids') > pool_max THEN Len(_uuids') ELSE pool_max
    /\ upc' = [upc EXCEPT ![t] = "slice"]
    /\ UNCHANGED <<srv_uuid, ucount, resp_uuids, urest, ures, ulen0, ureqs, ucalls>>
    /\ UNCHANGED notUuids

\* line 61, right-hand side, first element: self._uuids[:-1]
next_slice(t) ==
    /\ upc[t] = "slice"
    /\ urest' = [urest EXCEPT ![t] = next_rest(_uuids)]
    /\ upc' = [upc EXCEPT ![t] = "last"]
    /\ UNCHANGED <<_uuids, srv_uuid, ucount, resp_uuids, ures, ulen0, ureqs, ucalls,
                   pool_max>>
    /\ UNCHANGED notUuids

\* line 61, right-hand side, second element: self._uuids[-1], IndexError on an
\* empty list
next_last(t) ==
    /\ upc[t] = "last"
    /\ IF _uuids = << >>
       THEN /\ ucalls' = Append(ucalls, UCall(t, 0, "IndexError"))
            /\ upc' = [upc EXCEPT ![t] = "idle"]
            /\ UNCHANGED ures
       ELSE /\ ures' = [ures EXCEPT ![t] = next_res(_uuids)]
            /\ upc' = [upc EXCEPT ![t] = "assign"]
            /\ UNCHANGED ucalls
    /\ UNCHANGED <<_uuids, srv_uuid, ucount, resp_uuids, urest, ulen0, ureqs, pool_max>>
    /\ UNCHANGED notUuids

\* lines 61-62: the assignment self._uuids, res = ..., and return res
next_assign(t) ==
    /\ upc[t] = "assign"
    /\ _uuids' = urest[t]
    /\ ucalls' = Append(ucalls, UCall(t, ures[t], "ok"))
    /\ upc' = [upc EXCEPT ![t] = "idle"]
    /\ UNCHANGED <<srv_uuid, ucount, resp_uuids, urest, ures, ulen0, ureqs, pool_max>>
    /\ UNCHANGED notUuids

\* a new Uuids object: self._uuids = []
InitU ==
    /\ store = << >>
    /\ srv_uuid = 0
    /\ _uuids = << >>
    /\ doc = [val |-> ClientVal]
    /\ heap = << >>
    /\ InitSave
    /\ InitBulk
    /\ InitDel
    /\ InitCopy
    /\ InitAtt
    /\ InitFlush
    /\ InitUuids
    /\ InitView
    /\ InitIdx
    /\ InitReq
    /\ InitCls
    /\ InitDoc

NextOf(t) ==
    \/ next_call(t)
    \/ next_test(t)
    \/ fetch_uuids_count(t)
    \/ fetch_uuids_get(t)
    \/ fetch_uuids_iadd(t)
    \/ next_slice(t)
    \/ next_last(t)
    \/ next_assign(t)

\* two requesters, their steps interleaved
NextU == \E t \in Requesters : NextOf(t)

SpecUuids == InitU /\ [][NextU]_vars

\* one requester
NextU1 == NextOf(1)

SpecUuidsSeq == InitU /\ [][NextU1]_vars

\* ------------------------------------------------------------- Uuids.next: claims
\* the calls that returned a token
IsHanded(c) == c.exc = "ok"

Handed == SelectSeq(ucalls, IsHanded)

\* C16: no token is returned by two calls of next, whatever the interleaving
\* of the two requesters.
C16_NoTokenHandedTwice ==
    \A i \in 1..Len(Handed) : \A j \in 1..Len(Handed) :
        i # j => Handed[i].token # Handed[j].token

\* C17: with one requester: a request to /_uuids is made exactly by the calls
\* that find the pool empty, once, asking for max_uuids tokens; a call that
\* finds the pool non-empty makes none; the tokens returned are pairwise
\* different and none of them is in the pool afterwards; the pool never holds
\* more than max_uuids tokens.
C17_SequentialPool ==
    /\ \A i \in 1..Len(ureqs) : ureqs[i].count = max_uuids /\ ureqs[i].len = 0
    /\ Len(ureqs) = Cardinality({i \in 1..Len(ucalls) : ucalls[i].len0 = 0})
                    + (IF upc[1] \in {"iadd", "slice", "last", "assign"} /\ ulen0[1] = 0
                       THEN 1 ELSE 0)
    /\ \A i \in 1..Len(ucalls) :
          ucalls[i].exc = (IF ucalls[i].len0 = 0
                              /\ \E k \in 1..Len(ureqs) :
                                    /\ ureqs[k].status # StatusOk
                                    /\ k = Cardinality({j \in 1..i : ucalls[j].len0 = 0})
                           THEN "RequestFailed" ELSE "ok")
    /\ \A i \in 1..Len(Handed) :
          /\ \A j \in 1..Len(Handed) : i # j => Handed[i].token # Handed[j].token
          /\ \A k \in 1..Len(_uuids) : _uuids[k] # Handed[i].token
          /\ Handed[i].token >= 1
    /\ Len(_uuids) <= max_uuids
    /\ pool_max <= max_uuids

C17_Witness ==
    /\ upc[1] = "idle"
    /\ Len(Handed) = max_uuids + 1
    /\ Len(ureqs) = 2
    /\ Len(_uuids) = max_uuids - 1
    /\ Handed[max_uuids + 1].len0 = 0
    /\ Handed[max_uuids].len0 = 1


\* ------------------------------------------------------------- View
\* Every request of the view is answered with StatusOk and some result, with
\* NotFoundStatus (no such view) or with a server error.

\* View.wrapper: None, or a function from a raw row to the object handed out
Wrappers == {"None", "wrap"}

wrapper_call(row) == row + 10

\* View.__iter__, lines 675-679: the row as it is yielded
yield(w, row) == IF w = "None" THEN row ELSE wrapper_call(row)

\* values of the query parameters limit and keys
Limits == {1, 2}

KeySets == {<<1>>, <<1, 2>>}

\* parameter maps: the view's own (View.__init__'s params) and fetch's extra_params
ViewParams ==
    {Empty} \cup {[limit |-> l] : l \in Limits} \cup {[keys |-> k] : k \in KeySets}
    \cup {[limit |-> l, keys |-> k] : l \in Limits, k \in KeySets}

\* the results the server may answer a view query with
ViewResults == {[rows |-> [i \in 1..n |-> i]] : n \in 0..MaxRows}

ViewStatuses == Statuses(StatusOk) \cup {NotFoundStatus}

\* the bodies a response of that status may carry: a result when it is served
ViewAnswers(status) ==
    IF request(status) = "ok" THEN ViewResults ELSE {[rows |-> << >>]}

\* json.dumps
json_dumps(x) == [json |-> x]

\* encode_params: every value that is not a string is JSON-encoded
encode_params(p) == [k \in DOMAIN p |-> json_dumps(p[k])]

\* params.pop(k)
Pop(p, k) == [x \in (DOMAIN p) \ {k} |-> p[x]]

\* mutant of params_update: on a shared name the view's own value wins
params_update_own_wins(p, extra) == Update(extra, p)

\* View.fetch, lines 601-602: params = self.params.copy(); params.update(extra_params)
params_update(p, extra) == Update(p, extra)

\* mutant of caches: the result is stored whatever nocache is
caches_always(c, nc) == c

\* View.fetch, line 612: if self.cache and not nocache
caches(c, nc) == c /\ ~nc

\* mutant of cached: the cached result is never used
cached_never(c, rc) == FALSE

\* View.maybe_fetch, line 617: if self.cache and self._result_cache is not None
cached(c, rc) == c /\ ~rc.is_none

\* a request of the view and the server's answer to it
VReq(method, query, body, status, resp) ==
    [m |-> method, query |-> query, body |-> body, status |-> status, resp |-> resp]

\* View.fetch, lines 603-609: the request sent for the merged parameters
fetch_request(merged, status, resp) ==
    IF Has(merged, "keys")
    THEN VReq("POST", encode_params(Pop(merged, "keys")),
              json_dumps([keys |-> merged["keys"]]), status, resp)
    ELSE VReq("GET", encode_params(merged), Empty, status, resp)

\* the methods that read the result through maybe_fetch
MaybeOps == {"count", "__iter__", "rows", "first", "one"}

\* the number of times a method asks maybe_fetch for the result: list(self)
\* calls __len__ for a size hint and then iterates; one calls len(self) and first
Stages(op) ==
    IF op \in {"rows", "first"} THEN 2 ELSE IF op = "one" THEN 3 ELSE 1

\* a call of a View method starts
view_call(op, extra, nc, ea) ==
    /\ vop = "none"
    /\ vcalls < MaxViewCalls
    /\ vop' = op
    /\ extra_params' = extra
    /\ nocache' = nc
    /\ except_all' = ea
    /\ vstage' = 1
    /\ voutcome' = "none"
    /\ vret' = VRet(0, << >>)
    /\ vused' = None
    /\ vreqs' = << >>
    /\ vparams0' = self_params
    /\ vcache0' = _result_cache
    /\ vhist0' = vhist
    /\ UNCHANGED <<self_params, cache, wrapper, _result_cache, vhist, vcalls>>
    /\ UNCHANGED notView

\* an exception leaves the method
VRaise(exc) ==
    /\ voutcome' = exc
    /\ UNCHANGED <<vret, vused, vstage>>

\* View.fetch(extra, nocache=nc), answered with status and resp: what it does
\* to the view and to the request log
fetch_body(extra, nc, status, resp) ==
    /\ vreqs' = Append(vreqs, fetch_request(params_update(self_params, extra), status, resp))
    /\ self_params' = self_params
    /\ IF request(status) = "ok"
       THEN /\ _result_cache' = IF caches(cache, nc) THEN Some(resp) ELSE _result_cache
            /\ vhist' = Fetches(TRUE, vhist.stored \/ ~nc,
                                IF caches(cache, nc)
                                THEN fetch_request(params_update(self_params, extra), status, resp)
                                     = fetch_request(self_params, status, resp)
                                ELSE vhist.own)
       ELSE UNCHANGED <<_result_cache, vhist>>

\* mutant of multiple: one never finds too many rows
multiple_never(length) == FALSE

\* View.one, line 654: if length > 1
multiple(length) == length > 1

\* the value a method computes from the result at its stage st, and where
\* the method goes next
view_answer(op, st, results) ==
    LET rs == [i \in 1..Len(results.rows) |-> yield(wrapper, results.rows[i])]
        first_row == IF Len(rs) > 0 THEN rs[1] ELSE 0
    IN  IF op = "one" /\ st = 1 /\ multiple(Len(rs))
        THEN VRaise("MultipleResultsFound")
        ELSE IF st < Stages(op)
        THEN /\ vstage' = st + 1
             /\ UNCHANGED <<voutcome, vret, vused>>
        ELSE /\ vused' = Some(results)
             /\ vstage' = st
             /\ IF op = "one" /\ first_row = 0 /\ except_all
                THEN /\ voutcome' = "NoResultFound"
                     /\ UNCHANGED vret
                ELSE /\ voutcome' = "ok"
                     /\ vret' = IF op = "count" THEN VRet(Len(rs), << >>)
                                ELSE IF op \in {"first", "one"} THEN VRet(first_row, << >>)
                                ELSE VRet(0, rs)

\* View.fetch called by the user: one request, the result returned as it is
fetch_step ==
    /\ vop = "fetch"
    /\ voutcome = "none"
    /\ \E status \in ViewStatuses : \E resp \in ViewAnswers(status) :
         /\ fetch_body(extra_params, nocache, status, resp)
         /\ IF request(status) = "ok"
            THEN /\ voutcome' = "ok"
                 /\ vused' = Some(resp)
                 /\ vret' = VRet(0, resp.rows)
                 /\ UNCHANGED vstage
            ELSE VRaise(request(status))
    /\ UNCHANGED <<cache, wrapper, vop, extra_params, nocache, except_all, vparams0, vcache0,
                   vhist0, vcalls>>
    /\ UNCHANGED notView

\* View.maybe_fetch and the use the calling method makes of the result
maybe_fetch ==
    /\ vop \in MaybeOps
    /\ voutcome = "none"
    /\ IF cached(cache, _result_cache)
       THEN /\ view_answer(vop, vstage, _result_cache.v)
            /\ UNCHANGED <<self_params, _result_cache, vreqs, vhist>>
       ELSE \E status \in ViewStatuses : \E resp \in ViewAnswers(status) :
              /\ fetch_body(Empty, FALSE, status, resp)
              /\ IF request(status) = "ok"
                 THEN view_answer(vop, vstage, resp)
                 ELSE VRaise(request(status))
    /\ UNCHANGED <<cache, wrapper, vop, extra_params, nocache, except_all, vparams0, vcache0,
                   vhist0, vcalls>>
    /\ UNCHANGED notView

\* the methods, up to their first request
fetch(extra, nc) == view_call("fetch", extra, nc, FALSE)

count == view_call("count", Empty, FALSE, FALSE)

__iter__ == view_call("__iter__", Empty, FALSE, FALSE)

rows == view_call("rows", Empty, FALSE, FALSE)

first == view_call("first", Empty, FALSE, FALSE)

one(ea) == view_call("one", Empty, FALSE, ea)

\* the method returns or raises: the caller has the view back
view_return ==
    /\ vop # "none"
    /\ voutcome # "none"
    /\ vop' = "none"
    /\ vcalls' = vcalls + 1
    /\ UNCHANGED <<self_params, cache, wrapper, _result_cache, extra_params, nocache, except_all,
                   vstage, voutcome, vret, vused, vreqs, vparams0, vcache0, vhist, vhist0>>
    /\ UNCHANGED notView

\* a view made with any parameters, caching left on or switched off
InitV ==
    /\ InitIdx
    /\ InitReq
    /\ InitCls
    /\ InitDoc
    /\ store = << >>
    /\ srv_uuid = 0
    /\ _uuids = << >>
    /\ doc = [val |-> ClientVal]
    /\ heap = << >>
    /\ InitSave
    /\ InitBulk
    /\ InitDel
    /\ InitCopy
    /\ InitAtt
    /\ InitFlush
    /\ InitUuids
    /\ self_params \in ViewParams
    /\ cache \in BOOLEAN
    /\ wrapper \in Wrappers
    /\ _result_cache = None
    /\ vop = "none"
    /\ extra_params = Empty
    /\ nocache = FALSE
    /\ except_all = FALSE
    /\ vstage = 0
    /\ voutcome = "none"
    /\ vret = VRet(0, << >>)
    /\ vused = None
    /\ vreqs = << >>
    /\ vparams0 = Empty
    /\ vcache0 = None
    /\ vhist = Fetches(FALSE, FALSE, TRUE)
    /\ vhist0 = Fetches(FALSE, FALSE, TRUE)
    /\ vcalls = 0

NextV ==
    \/ \E extra \in ViewParams, nc \in BOOLEAN : fetch(extra, nc)
    \/ count
    \/ __iter__
    \/ rows
    \/ first
    \/ \E ea \in BOOLEAN : one(ea)
    \/ fetch_step
    \/ maybe_fetch
    \/ view_return

SpecView == InitV /\ [][NextV]_vars

\* a call of op is over and the caller has not taken the view back yet
VDone(op) == vop = op /\ voutcome # "none"

\* the parameters of a fetch, merged as the contract states it: every name of
\* either map, with the extra value on a shared name
MergedParams ==
    [k \in (DOMAIN vparams0) \cup (DOMAIN extra_params) |->
        IF k \in DOMAIN extra_params THEN extra_params[k] ELSE vparams0[k]]

\* C18: View.fetch sends one request for extra_params merged over the view's
\* own parameters, the extra value winning on a shared name, and leaves the
\* view's own parameter map as it was.  When the merged parameters contain
\* keys the request is a POST with the body {"keys": keys} and no keys in the
\* query string; otherwise it is a GET with every merged parameter in the
\* query string and no body.
C18_FetchRequest ==
    VDone("fetch") =>
        /\ self_params = vparams0
        /\ Len(vreqs) = 1
        /\ IF "keys" \in DOMAIN MergedParams
           THEN /\ vreqs[1].m = "POST"
                /\ vreqs[1].body = json_dumps([keys |-> MergedParams["keys"]])
                /\ DOMAIN vreqs[1].query = (DOMAIN MergedParams) \ {"keys"}
                /\ \A k \in DOMAIN vreqs[1].query :
                     vreqs[1].query[k] = json_dumps(MergedParams[k])
           ELSE /\ vreqs[1].m = "GET"
                /\ vreqs[1].body = Empty
                /\ DOMAIN vreqs[1].query = DOMAIN MergedParams
                /\ \A k \in DOMAIN vreqs[1].query :
                     vreqs[1].query[k] = json_dumps(MergedParams[k])

\* a fetch whose extra keys were sent in the body of a POST, with the extra
\* limit in place of the view's own in the query string
C18_Witness ==
    /\ VDone("fetch")
    /\ Has(vparams0, "limit") /\ Has(extra_params, "limit")
    /\ vparams0["limit"] # extra_params["limit"]
    /\ ~Has(vparams0, "keys") /\ Has(extra_params, "keys")
    /\ vreqs[1].m = "POST"
    /\ vreqs[1].query["limit"] = json_dumps(extra_params["limit"])

\* C19: when View.fetch returns, the cache holds the result the server
\* answered with if the view caches and nocache was not set, and is what it
\* was before the call otherwise; when it raises, the cache is what it was.
C19_FetchCache ==
    VDone("fetch") =>
        IF voutcome = "ok" /\ cache /\ ~nocache
        THEN _result_cache = Some(vreqs[1].resp)
        ELSE _result_cache = vcache0

\* a fetch that replaced a cached result by a different one
C19_Witness ==
    /\ VDone("fetch")
    /\ voutcome = "ok" /\ cache /\ ~nocache
    /\ ~vcache0.is_none
    /\ _result_cache # vcache0

\* what a method answers when it computes its value from the result r
AnswerFrom(r) ==
    LET rs == [i \in 1..Len(r.rows) |-> yield(wrapper, r.rows[i])]
        first_row == IF Len(rs) > 0 THEN rs[1] ELSE 0
    IN  CASE vop = "count" -> voutcome = "ok" /\ vret = VRet(Len(rs), << >>)
          [] vop \in {"__iter__", "rows"} -> voutcome = "ok" /\ vret = VRet(0, rs)
          [] vop = "first" -> voutcome = "ok" /\ vret = VRet(first_row, << >>)
          [] vop = "one" ->
                IF Len(rs) > 1 THEN voutcome = "MultipleResultsFound"
                ELSE IF first_row = 0 /\ except_all THEN voutcome = "NoResultFound"
                ELSE voutcome = "ok" /\ vret = VRet(first_row, << >>)

\* a call of count, iteration, rows, first or one is over
MaybeDone == vop \in MaybeOps /\ voutcome # "none"

\* the call issued no request and answered from the result cached before it
FromCache ==
    /\ vreqs = << >>
    /\ ~vcache0.is_none
    /\ _result_cache = vcache0
    /\ AnswerFrom(vcache0.v)

\* C20 as stated: on a view that caches, count, iteration, rows, first and
\* one issue no request and answer from the cached result once any fetch has
\* succeeded; on a view that does not cache each of them fetches.
C20_AfterAnyFetch ==
    MaybeDone =>
        /\ (cache /\ vhist0.fetched) => FromCache
        /\ ~cache => Len(vreqs) >= 1

\* C20: count, iteration, rows, first and one fetch only when the view has no
\* cached result.  On a view that caches, once a fetch that was not made with
\* nocache has succeeded the view has a cached result, and every call on a
\* view with a cached result issues no request and answers from that result,
\* count with its number of rows; a call on a caching view without a cached
\* result issues one request.  On a view that does not cache each of them
\* fetches again.
C20_FetchOnlyWhenNotCached ==
    MaybeDone =>
        /\ (cache /\ vhist0.stored) => ~vcache0.is_none
        /\ (cache /\ ~vcache0.is_none) => FromCache
        /\ (cache /\ vcache0.is_none) => Len(vreqs) = 1
        /\ ~cache => Len(vreqs) >= 1
        /\ (vop = "count" /\ voutcome = "ok") => vret.n = Len(vused.v.rows)

\* a count answered from a result of two rows cached by an earlier call
C20_Witness ==
    /\ MaybeDone
    /\ vop = "count"
    /\ cache /\ vhist0.stored
    /\ vreqs = << >>
    /\ vret.n = MaxRows

\* C35: whenever the view holds a cached result, that result is the answer to
\* the request for the view's own parameters: no call of fetch, count,
\* iteration, rows, first or one leaves in the cache the rows of a query made
\* with extra parameters.
C35_CacheOwnQuery == ~_result_cache.is_none => vhist.own

\* the results the call read, in order: the cached one, or those of its requests
Reads ==
    IF cache /\ ~vcache0.is_none THEN <<vcache0.v>>
    ELSE [i \in 1..Len(vreqs) |-> vreqs[i].resp]

\* every request of the call was served, and all its reads saw the result r
ReadOnly(r) ==
    /\ \A i \in 1..Len(vreqs) : request(vreqs[i].status) = "ok"
    /\ \A i \in 1..Len(Reads) : Reads[i] = r

C38_OneQuery ==
    VDone("one") =>
        /\ Len(vreqs) <= 1
        /\ voutcome = "ok" => Len(vused.v.rows) <= 1

\* ------------------------------------------------------------- View.__getitem__
\* Two view objects: the one of the View section, which is indexed, and the
\* one __getitem__ returns.  A dict is an object: child_alias tells whether the
\* returned view's params is the indexed view's own dict, in which case an
\* item assignment to either is one to both.

\* calls made on each of the two views after the first __getitem__, that call
\* being one of the returned view's
MaxIndex == 2

\* the keys a view is indexed with
IndexKeys ==
    {IndexKey("slice", a, b, << >>, 0) : a \in {<< >>, <<1>>}, b \in {<< >>, <<2>>}}
    \cup {IndexKey(k, << >>, << >>, <<1, 2>>, 0) : k \in {"list", "tuple"}}
    \cup {IndexKey("other", << >>, << >>, << >>, 3)}

\* the parameter maps the two views are made and fetched with
IndexParams == {Empty, [limit |-> 2, keys |-> <<1>>]}

\* mutant of copy_is_new: params is the receiver's dict itself
copy_is_alias == FALSE

\* View.__getitem__, line 682: self.params.copy() is a new dict object
copy_is_new == TRUE

\* View.__getitem__, lines 683-691: the item assignments made to params
getitem_params(p, key) ==
    IF key.kind = "slice"
    THEN LET p1 == IF key.start # << >> THEN Set(p, "startkey", key.start[1]) ELSE p
         IN  IF key.stop # << >> THEN Set(p1, "endkey", key.stop[1]) ELSE p1
    ELSE IF key.kind \in {"list", "tuple"}
    THEN Set(p, "keys", key.items)
    ELSE Set(p, "key", key.val)

\* the params dict of the returned view
ChildParams == IF child_alias THEN self_params ELSE child_params

\* View.__getitem__(key) on the view, between two of its calls; View.__init__
\* of the new view keeps the dict it is given unless it is empty (params or {})
__getitem__(key) ==
    /\ vop = "none"
    /\ xcalls < MaxIndex
    /\ LET params == getitem_params(self_params, key)
       IN  /\ self_params' = IF copy_is_new THEN self_params ELSE params
           /\ child_params' = params
           /\ child_alias' = (~copy_is_new /\ params # Empty)
    /\ child_made' = TRUE
    /\ child_uri' = uri
    /\ child_wrapper' = wrapper
    /\ child_cache' = None
    /\ child_reqs' = << >>
    /\ xkey' = key
    /\ xparams0' = self_params
    /\ xcalls' = xcalls + 1
    /\ UNCHANGED <<uri, cache, wrapper, _result_cache, vop, extra_params, nocache,
                   except_all, vstage, voutcome, vret, vused, vreqs, vparams0,
                   vcache0, vhist, vhist0, vcalls>>
    /\ UNCHANGED notIdx

\* View.fetch(extra, nocache=nc) on the returned view, request and answer,
\* between two calls on the indexed view
child_fetch(extra, nc) ==
    /\ child_made
    /\ vop = "none"
    /\ xcalls < MaxIndex
    /\ \E status \in ViewStatuses : \E resp \in ViewAnswers(status) :
         /\ child_reqs' = <<fetch_request(params_update(ChildParams, extra), status, resp)>>
         /\ child_cache' = IF request(status) = "ok" /\ caches(cache, nc)
                           THEN Some(resp) ELSE child_cache
    /\ xcalls' = xcalls + 1
    /\ UNCHANGED <<uri, child_made, child_uri, child_wrapper, child_params, child_alias,
                   xkey, xparams0>>
    /\ UNCHANGED viewVars
    /\ UNCHANGED notIdx

\* a later call of fetch on the indexed view, step by step
index_fetch ==
    /\ child_made
    /\ vcalls < MaxIndex
    /\ \/ \E extra \in IndexParams : fetch(extra, FALSE)
       \/ fetch_step
       \/ view_return
    /\ UNCHANGED idxVars

\* a view made with parameters or without, caching as the class has it
InitX ==
    /\ InitV
    /\ self_params \in IndexParams
    /\ cache = TRUE

NextX ==
    \/ index_fetch
    \/ \E key \in IndexKeys : __getitem__(key)
    \/ \E extra \in IndexParams, nc \in BOOLEAN : child_fetch(extra, nc)

SpecIndex == InitX /\ [][NextX]_vars

\* the parameters the claim gives the returned view: the receiver's, and
\* startkey and endkey for the bounds of a slice that are given, keys for a
\* list or tuple, key for any other value
IndexedParams(p, key) ==
    [k \in (DOMAIN p)
           \cup (IF key.kind = "slice" /\ key.start # << >> THEN {"startkey"} ELSE {})
           \cup (IF key.kind = "slice" /\ key.stop # << >> THEN {"endkey"} ELSE {})
           \cup (IF key.kind \in {"list", "tuple"} THEN {"keys"} ELSE {})
           \cup (IF key.kind = "other" THEN {"key"} ELSE {}) |->
        IF k = "startkey" /\ key.kind = "slice" /\ key.start # << >> THEN key.start[1]
        ELSE IF k = "endkey" /\ key.kind = "slice" /\ key.stop # << >> THEN key.stop[1]
        ELSE IF k = "keys" /\ key.kind \in {"list", "tuple"} THEN key.items
        ELSE IF k = "key" /\ key.kind = "other" THEN key.val
        ELSE p[k]]

\* the step is a call of __getitem__
IsGetitem == xcalls' = xcalls + 1 /\ child_reqs' = << >>

\* C21: a call of __getitem__ sends no request on either view and leaves the
\* receiver's cache as it is; the view it returns has the receiver's uri and
\* wrapper, no cached result until it fetches, and the receiver's parameters
\* with the key added as startkey/endkey, keys or key.  From then on, whatever
\* is called on either view, the receiver's parameters are those it had before
\* and the returned view's are those it was made with.
C21_Getitem ==
    /\ [](child_made =>
            /\ child_uri = uri
            /\ child_wrapper = wrapper
            /\ (child_reqs = << >> => child_cache = None)
            /\ ChildParams = IndexedParams(xparams0, xkey)
            /\ self_params = xparams0)
    /\ [][IsGetitem => (vreqs' = vreqs /\ _result_cache' = _result_cache)]_vars

\* after view[1:2] the returned view has fetched with startkey and endkey and
\* cached its result, and the indexed view, which has a wrapper and a cached
\* result of its own, has fetched with extra parameters since
C21_Witness ==
    /\ child_made
    /\ xkey = IndexKey("slice", <<1>>, <<2>>, << >>, 0)
    /\ Has(xparams0, "limit")
    /\ wrapper # "None"
    /\ Len(child_reqs) = 1
    /\ Has(child_reqs[1].query, "startkey") /\ Has(child_reqs[1].query, "endkey")
    /\ ~child_cache.is_none
    /\ VDone("fetch") /\ Has(extra_params, "keys")
    /\ ~_result_cache.is_none
    /\ _result_cache # child_cache

\* ------------------------------------------------------------- CouchdbResource.request
\* One call of request at a time.  The transport (HttpConnection.request)
\* answers with a response of some status, returns None, or raises an
\* exception of its own when the server cannot be reached.  The attribute
\* connection_uri, which request reads first, is taken as set.

\* the statuses a response may have
HttpStatuses == {200, 201, 304, 400, 401, 403, 404, 409, 412, 500}

\* the exceptions the transport raises when it gets no response
TransportErrors == {"RequestError", "RequestTimeout"}

\* lines 132-137: a payload that is neither a file nor a string is encoded and
\* headers.setdefault is called on the headers argument, None by default
encode_fails(pl, hd) == pl = "obj" /\ hd = "None"

\* the answers of the unauthorized hook: line 121-122 answers True, a subclass
\* may answer False
HookAnswers == BOOLEAN

MaxSends == 2

\* request(method, path, payload, headers), up to the round trip, on a resource
\* whose unauthorized hook answers hook
request_call(pl, hd, hook) ==
    /\ rpc = "idle"
    /\ Len(rlog) < MaxRequests
    /\ rpayload' = pl
    /\ rheaders' = hd
    /\ rhook' = hook
    /\ rsent' = 0
    /\ rstatus' = 0
    /\ rraised' = "none"
    /\ IF encode_fails(pl, hd)
       THEN rpc' = "done" /\ routcome' = "AttributeError"
       ELSE rpc' = "send" /\ routcome' = "none"
    /\ UNCHANGED rlog
    /\ UNCHANGED notReq

\* lines 127-165: one turn of the loop, the round trip and the mapping of its
\* result; nothing catches what the transport raises, and on 401 and 403 with
\* a hook that answers False nothing is raised and the loop goes round again
request_send ==
    /\ rpc = "send"
    /\ rsent < MaxSends
    /\ rsent' = rsent + 1
    /\ \/ \E status \in HttpStatuses :
            /\ rstatus' = status
            /\ IF request_with(status, rhook) = "again"
               THEN rpc' = "send" /\ UNCHANGED routcome
               ELSE rpc' = "done" /\ routcome' = request_with(status, rhook)
            /\ UNCHANGED rraised
       \/ /\ routcome' = "ValueError"
          /\ rpc' = "done"
          /\ UNCHANGED <<rstatus, rraised>>
       \/ \E exc \in TransportErrors :
            /\ rraised' = exc
            /\ routcome' = exc
            /\ rpc' = "done"
            /\ UNCHANGED rstatus
    /\ UNCHANGED <<rpayload, rheaders, rlog, rhook>>
    /\ UNCHANGED notReq

\* the caller has the response or the exception
request_return ==
    /\ rpc = "done"
    /\ rpc' = "idle"
    /\ rlog' = Append(rlog, routcome)
    /\ UNCHANGED <<rpayload, rheaders, rstatus, rraised, routcome, rhook, rsent>>
    /\ UNCHANGED notReq

InitR == Init

NextR ==
    \/ \E pl \in {"none", "str", "obj"}, hd \in {"None", "dict"}, hook \in HookAnswers :
         request_call(pl, hd, hook)
    \/ request_send
    \/ request_return

SpecRequest == InitR /\ [][NextR]_vars

\* a call of request is over
RDone == rpc = "done"

\* the outcome the contract fixes for a response of that status
FixedOutcome(status) ==
    IF status < 400 THEN "ok"
    ELSE IF status = NotFoundStatus THEN "ResourceNotFound"
    ELSE IF status = ConflictStatus THEN "ResourceConflict"
    ELSE IF status \in {401, 403} THEN "Unauthorized"
    ELSE "RequestFailed"

\* C23: a call of request that got a response ends as the status of the
\* response fixes it: the response is returned below 400, ResourceNotFound is
\* raised on 404, ResourceConflict on 412, Unauthorized on 401 and 403,
\* RequestFailed on every other status.
C23_StatusMapping ==
    (RDone /\ rstatus # 0) => routcome = FixedOutcome(rstatus)

\* C24: a call of request whose transport could not reach the server ends
\* with RequestFailed raised.
C24_ConnectionFailure ==
    (RDone /\ rraised # "none") => routcome = "RequestFailed"

\* C33: a call of request makes one round trip and no more, whatever the
\* status of the response and whatever the unauthorized hook answers.
C33_OneRoundTrip == rsent <= 1

\* ------------------------------------------------------------- SchemaProperties.__new__
\* Class statements of document classes.  A class is its _properties, the
\* names of the properties it declares or inherits.  The body of a class
\* statement gives each attribute name a value that is a Property instance, a
\* value of a Python type that maps to a property (MAP_TYPES_PROPERTIES), or
\* anything else (a method).

_RESERVED_WORDS == {"_id", "_rev", "$schema"}

_NODOC_WORDS == {"doc_type"}

\* attribute names of class bodies, and str.startswith('_') on them
AttrNames == {"_id", "_rev", "$schema", "title", "body", "doc_type"}

startswith_(str) == str \in {"_id", "_rev", "_x", "_attachments"}

\* bodies of at most two attributes
ClassBodies ==
    {Empty} \cup
    UNION {[{a, b} -> {"Property", "type", "other"}] : a \in AttrNames, b \in {"title", "body"}}

\* mutant of check_reserved_words: no name is refused
check_reserved_words_never(attr_name) == FALSE

\* check_reserved_words raises ReservedWordError
check_reserved_words(attr_name) == attr_name \in _RESERVED_WORDS

\* lines 48-57: the names defined by the bases before base number i
defined_before(bases, i) == UNION {bases[j] : j \in 1..(i - 1)}

\* lines 48-55: some base declares a property an earlier base declares
duplicate_properties(bases) ==
    \E i \in 1..Len(bases) : defined_before(bases, i) \cap bases[i] # {}

\* lines 67-86: whether the attribute becomes a property
is_property(attr_name, kind) ==
    \/ kind = "Property"
    \/ /\ kind = "type"
       /\ ~startswith_(attr_name)
       /\ attr_name \notin _NODOC_WORDS

\* lines 67-86: the exceptions the loop over the body may raise; the order in
\* which attrs.items() yields the attributes is not fixed
attr_errors(bases, attrs) ==
    {"ReservedWordError" : a \in {n \in DOMAIN attrs :
        is_property(n, attrs[n]) /\ check_reserved_words(n)}}
    \cup
    {"DuplicatePropertyError" : a \in {n \in DOMAIN attrs :
        /\ is_property(n, attrs[n]) /\ ~check_reserved_words(n)
        /\ n \in defined_before(bases, Len(bases) + 1)}}

\* the class statement: class name(bases): attrs
SchemaProperties__new__(bases, attrs) ==
    /\ kdefs < MaxClasses
    /\ kbases' = bases
    /\ kattrs' = attrs
    /\ kdefs' = kdefs + 1
    /\ IF duplicate_properties(bases)
       THEN /\ koutcome' = "DuplicatePropertyError"
            /\ UNCHANGED <<classes, kprops>>
       ELSE IF attr_errors(bases, attrs) # {}
       THEN /\ koutcome' \in attr_errors(bases, attrs)
            /\ UNCHANGED <<classes, kprops>>
       ELSE /\ koutcome' = "created"
            /\ kprops' = defined_before(bases, Len(bases) + 1)
                         \cup {n \in DOMAIN attrs : is_property(n, attrs[n])}
            /\ classes' = classes \cup {kprops'}
    /\ UNCHANGED notCls

InitK == Init

NextK ==
    \E b1 \in classes, b2 \in classes, n \in 1..2, attrs \in ClassBodies :
        SchemaProperties__new__(SubSeq(<<b1, b2>>, 1, n), attrs)

SpecClass == InitK /\ [][NextK]_vars

\* the last class statement declares a property under a reserved name
DeclaresReserved ==
    \E n \in DOMAIN kattrs :
        /\ n \in {"_id", "_rev", "$schema"}
        /\ \/ kattrs[n] = "Property"
           \/ kattrs[n] = "type" /\ n = "$schema"

\* the last class statement has no duplicate property
NoDuplicate ==
    /\ \A i \in 1..Len(kbases), j \in 1..Len(kbases) :
         i # j => kbases[i] \cap kbases[j] = {}
    /\ \A n \in DOMAIN kattrs :
         kattrs[n] \in {"Property", "type"} => \A i \in 1..Len(kbases) : n \notin kbases[i]

\* C25: a class statement that declares a property under _id, _rev or $schema
\* creates no class: it raises ReservedWordError, or DuplicatePropertyError
\* when the statement has a duplicate property as well.  No class has a
\* property under a reserved name.
C25_ReservedAtDefinition ==
    /\ (koutcome # "none" /\ DeclaresReserved) =>
           /\ koutcome \in {"ReservedWordError", "DuplicatePropertyError"}
           /\ NoDuplicate => koutcome = "ReservedWordError"
    /\ \A c \in classes : c \cap {"_id", "_rev", "$schema"} = {}

\* a subclass of a class with a property, declaring _rev, was refused
C25_Witness ==
    /\ koutcome = "ReservedWordError"
    /\ Len(kbases) = 1 /\ kbases[1] # {}
    /\ Has(kattrs, "_rev") /\ kattrs["_rev"] = "Property"
    /\ NoDuplicate
    /\ kdefs = 2


\* ------------------------------------------- document instances
\* schema/base.py: DocumentSchema, DocumentBase, StaticDocument.  One instance is
\* followed.  The classes Document and StaticDocument of the model declare one
\* property, title, whose default is TitleDefault.

MaxDocOps == 2

MaxList == 2

NoneV == Val("none", "", << >>)

Str(str) == Val("str", str, << >>)

Num(str) == Val("int", str, << >>)

List(l) == Val("list", "", l)

\* an instance of a type that is not in ALLOWED_PROPERTY_TYPES
Obj == Val("obj", "", << >>)

TitleDefault == Str("untitled")

\* the values the callers of the model pass
Values == {Str("a"), Str(""), Str("_x"), Num("5"), NoneV, List(<< >>), List(<<"a">>), Obj}

KeyOrder == <<"_id", "_rev", "$schema", "doc_type", "title", "tags", "items">>

\* line 43-89, 617-621: _properties of both classes
_properties == {"title"}

\* names dir() finds on the class: its methods and attributes
class_dir == {"items", "title"}

\* key in d
has(d, k) == d[k] # Absent

\* lines 38-41: valid_id returns the value, or raises TypeError
valid_id_raises(value) == ~(value.vt = "str" /\ ~startswith_(value.vs))

\* lines 171, 403: the truth of a value, as `and` and `if` test it
truthy(value) ==
    CASE value.vt \in {"absent", "none"} -> FALSE
      [] value.vt = "str" -> value.vs # ""
      [] value.vt = "list" -> value.vl # << >>
      [] OTHER -> TRUE

\* lines 108-109, 156-158: the type tag of an instance of class c
doc_type_of(c) == Str(c)

\* lines 155-159: to_json puts the type tag in _doc when it is missing or None,
\* and returns _doc itself
schema_to_json(c, d) ==
    IF d["doc_type"].vt \in {"absent", "none"}
    THEN [d EXCEPT !["doc_type"] = doc_type_of(c)]
    ELSE d


\* the parts of an instance a method changes, and the exception it ends with:
\* _doc, _dynamic_properties, the other instance attributes, the bound keys
St(d, dyn, at, bnd, exc) == [d |-> d, dyn |-> dyn, at |-> at, bnd |-> bnd, exc |-> exc]

Fails(st, exc) == St(st.d, st.dyn, st.at, st.bnd, exc)

NewSt == St(NoKeys, NoKeys, NoKeys, {}, "ok")

\* couchdbkit.schema.properties, ALLOWED_PROPERTY_TYPES: the types a dynamic
\* field may have
allowed_type(value) == value.vt # "obj"

\* couchdbkit.schema.properties, convert_property: on the strings and numbers
\* of the model the wire value is the value
convert_property(value) == value

\* couchdbkit.schema.properties, Property.validate of the string property
\* title: a string or None
title_accepts(value) == value.vt \in {"str", "none"}

\* couchdbkit.schema.properties, Property.default_value
default_value == TitleDefault

\* couchdbkit.schema.properties, Property.__property_init__ and Property.__set__:
\* the value of a declared field is kept in _doc under the field's name
property_set(st, key, value) ==
    IF ~title_accepts(value) THEN Fails(st, "BadValueError")
    ELSE St([st.d EXCEPT ![key] = value], st.dyn, st.at, st.bnd, "ok")

\* couchdbkit.schema.properties, Property.__get__: the value kept in _doc, the
\* declared default when there is none
property_get(d, key) == IF d[key].vt \in {"absent", "none"} THEN default_value ELSE d[key]

\* couchdbkit.schema.properties, LazyList(doc, init_vals=value): the wrapper and
\* the list it is given both hold the items of value, and every later change
\* made through the wrapper is made to that list too
LazyList(st, key, value) ==
    St([st.d EXCEPT ![key] = List(value.vl)], [st.dyn EXCEPT ![key] = List(value.vl)],
       st.at, st.bnd \cup {key}, "ok")

\* lines 224-231 and the lookup before them: hasattr(self, key)
hasattr(st, key) ==
    \/ key \in class_dir
    \/ has(st.at, key)
    \/ has(st.dyn, key)
    \/ key \in {"_id", "_rev"}

\* dir(self): the names of the class and of the instance's own attributes
dir(st) == class_dir \cup {k \in Keys : has(st.at, k)}

\* lines 162-211: DocumentSchema.__setattr__ on an instance whose class has
\* _allow_dynamic_properties = allow
setattr_(st, allow, key, value) ==
    IF st.exc # "ok" THEN st
    ELSE IF key = "_id" /\ valid_id_raises(value) THEN Fails(st, "TypeError")
    ELSE IF key = "_id" /\ truthy(value)
    THEN St([st.d EXCEPT !["_id"] = value], st.dyn, st.at, st.bnd, "ok")
    ELSE IF check_reserved_words(key) THEN Fails(st, "ReservedWordError")
    ELSE IF ~hasattr(st, key) /\ ~allow THEN Fails(st, "AttributeError")
    ELSE IF ~startswith_(key) /\ key \notin _properties /\ key \notin dir(st)
    THEN IF ~allowed_type(value) THEN Fails(st, "TypeError")
         ELSE IF value.vt = "list" THEN LazyList(st, key, value)
         ELSE St([st.d EXCEPT ![key] = convert_property(value)],
                 [st.dyn EXCEPT ![key] = value], st.at, st.bnd \ {key}, "ok")
    ELSE IF key \in _properties THEN property_set(st, key, value)
    ELSE St(st.d, st.dyn, [st.at EXCEPT ![key] = value], st.bnd, "ok")


\* lines 121-136, 316-327: setattr(instance, attr_name, value) for the keys ks of
\* data, from key number i of KeyOrder on; the first exception ends the loop
RECURSIVE setattr_all(_, _, _, _, _)
setattr_all(st, allow, data, ks, i) ==
    IF i > Len(KeyOrder) THEN st
    ELSE IF KeyOrder[i] \in ks
    THEN setattr_all(setattr_(st, allow, KeyOrder[i], data[KeyOrder[i]]), allow, data, ks, i + 1)
    ELSE setattr_all(st, allow, data, ks, i + 1)

\* lines 111-118, 304-313: the value a declared field starts with: the default
\* when the keyword or the key is missing or None (the first definition keeps None)
seed_keeps_none(data, key) == IF data[key].vt = "absent" THEN default_value ELSE data[key]

seed(data, key) == IF data[key].vt \in {"absent", "none"} THEN default_value ELSE data[key]

\* lines 398-404 and 99-136: DocumentBase.__init__(**kwargs) of class c
schema_init(c, allow, kwargs) ==
    LET st0 == St([NoKeys EXCEPT !["doc_type"] = doc_type_of(c)], NoKeys, NoKeys, {}, "ok")
        st1 == property_set(st0, "title", seed(kwargs, "title"))
        ks == {k \in Keys \ ({"_id"} \cup _properties) : has(kwargs, k) /\ kwargs[k] # NoneV}
        st2 == setattr_all(st1, allow, kwargs, ks, 1)
        docid == kwargs["_id"]
    IN  IF st2.exc # "ok" \/ docid \in {Absent, NoneV} THEN st2
        ELSE IF valid_id_raises(docid) THEN Fails(st2, "TypeError")
        ELSE St([st2.d EXCEPT !["_id"] = docid], st2.dyn, st2.at, st2.bnd, "ok")

\* lines 299-328: cls.wrap(data)
wrap(c, allow, data) ==
    LET st0 == schema_init(c, allow, NoKeys)
        st1 == St(data, st0.dyn, st0.at, {}, "ok")
        st2 == property_set(st1, "title", seed(data, "title"))
        ks == {k \in Keys \ _properties :
                  /\ has(data, k)
                  /\ data[k] # NoneV
                  /\ ~startswith_(k)
                  /\ k # "doc_type"}
    IN  IF allow THEN setattr_all(st2, allow, data, ks, 1) ELSE st2

\* lines 338-350: self.clone(**kwargs); the new instance gets the _doc of self,
\* the wrappers its constructor made stay on the lists of the _doc it built
clone(st, c, allow, kwargs) ==
    LET kw1 == [k \in Keys |->
                   IF k \in _properties /\ has(st.d, k) THEN st.d[k]
                   ELSE IF has(st.dyn, k) THEN st.dyn[k]
                   ELSE kwargs[k]]
        obj == schema_init(c, allow, kw1)
    IN  IF obj.exc # "ok" THEN obj
        ELSE St(st.d, obj.dyn, obj.at, {}, "ok")

\* lines 213-222: DocumentSchema.__delattr__; object.__delattr__ deletes an
\* instance attribute, leaves a declared field to its descriptor and raises
\* AttributeError for any other name
delattr_(st, key) ==
    LET d1 == [st.d EXCEPT ![key] = Absent]
    IN  IF has(st.dyn, key)
        THEN St(d1, [st.dyn EXCEPT ![key] = Absent], st.at, st.bnd \ {key}, "ok")
        ELSE IF has(st.at, key)
        THEN St(d1, st.dyn, [st.at EXCEPT ![key] = Absent], st.bnd \ {key}, "ok")
        ELSE IF key \in _properties THEN St(d1, st.dyn, st.at, st.bnd, "ok")
        ELSE St(d1, st.dyn, st.at, st.bnd \ {key}, "AttributeError")

\* lines 252-258: __delitem__ turns the AttributeError into KeyError
delitem_(st, key) ==
    LET st1 == delattr_(st, key)
    IN  IF st1.exc = "AttributeError" THEN Fails(st1, "KeyError") ELSE st1


\* a dict of at most two keys: _id and one more
Kw(id, extra) ==
    [k \in Keys |-> IF k = "_id" THEN id ELSE IF k = extra[1] THEN extra[2] ELSE Absent]

\* what callers pass to a constructor: an _id, or one more keyword with or
\* without an _id
Extras ==
    {<<"title", Absent>>, <<"title", NoneV>>, <<"title", Str("a")>>, <<"_rev", Str("a")>>,
     <<"tags", List(<<"a">>)>>, <<"tags", List(<< >>)>>, <<"tags", Obj>>,
     <<"items", Str("a")>>}

Kwargs ==
    {Kw(id, <<"title", Absent>>) : id \in {Str("a"), Str(""), Str("_x")}}
        \cup {Kw(id, extra) : id \in {Absent, Str("a")}, extra \in Extras}

\* what callers pass to clone
CloneKwargs == {Kw(Absent, <<"title", Absent>>), Kw(Absent, <<"tags", List(<<"a">>)>>)}

\* the documents a server sends or a caller wraps: with _id and _rev or with
\* neither, and at most one more key
WireExtras ==
    {<<"title", Absent>>, <<"title", NoneV>>, <<"title", Str("a")>>, <<"$schema", Str("a")>>,
     <<"tags", List(<<"a">>)>>, <<"tags", Str("a")>>, <<"tags", NoneV>>,
     <<"items", Str("a")>>, <<"doc_type", Str("Document")>>}

WireData ==
    {[Kw(id, extra) EXCEPT !["_rev"] = IF id = Absent THEN Absent ELSE Str("r")] :
        id \in {Absent, Str("a")}, extra \in WireExtras}

\* the assignments callers make: <<key, value>>
SetArgs ==
    {<<"_id", Str("a")>>, <<"_id", Str("")>>, <<"_id", Str("_x")>>, <<"_id", Num("5")>>,
     <<"_id", NoneV>>, <<"_rev", Str("a")>>, <<"$schema", Str("a")>>,
     <<"title", Str("a")>>, <<"title", NoneV>>, <<"title", Num("5")>>,
     <<"tags", Str("a")>>, <<"tags", List(<< >>)>>, <<"tags", List(<<"a">>)>>,
     <<"tags", Obj>>, <<"items", Str("a")>>, <<"doc_type", Str("a")>>}

SetItemArgs ==
    {<<"_id", Str("a")>>, <<"_id", Str("")>>, <<"_id", Num("5")>>, <<"_rev", Str("a")>>,
     <<"title", NoneV>>, <<"tags", List(<<"a">>)>>}

\* the state of the instance followed
Self == St(obj_doc, obj_dynamic, obj_dict, obj_bound, "ok")

\* who put the _id that d holds: by, when the operation has put one, else
\* whoever had put it before
id_source(d, by) ==
    IF ~has(d, "_id") THEN "none"
    ELSE IF by # "none" THEN by
    ELSE id_from

\* the operation is over: st is the instance, or the instance is lost when the
\* operation that was to make it (fresh) raised
DocStep(op, c, st, key, fresh, by) ==
    LET lost == fresh /\ st.exc # "ok"
    IN  /\ scalls < MaxDocOps
        /\ scalls' = scalls + 1
        /\ sop' = op
        /\ skey' = key
        /\ sout' = st.exc
        /\ obj_cls' = IF lost THEN "none" ELSE c
        /\ obj_doc' = IF lost THEN NoKeys ELSE st.d
        /\ obj_dynamic' = IF lost THEN NoKeys ELSE st.dyn
        /\ obj_dict' = IF lost THEN NoKeys ELSE st.at
        /\ obj_bound' = IF lost THEN {} ELSE st.bnd
        /\ id_from' = IF lost THEN "none" ELSE id_source(st.d, by)
        /\ UNCHANGED notDoc

\* Document(**kwargs), StaticDocument(**kwargs)
__init__(c, kwargs) ==
    /\ DocStep("init", c, schema_init(c, cls_allow[c], kwargs), "none", TRUE, "caller")
    /\ UNCHANGED <<cls_allow, cls_db>>

\* cls.wrap(data)
wrap_call(c, data) ==
    /\ DocStep("wrap", c, wrap(c, cls_allow[c], data), "none", TRUE, "wire")
    /\ UNCHANGED <<cls_allow, cls_db>>

\* doc.key = value
__setattr__(key, value) ==
    /\ obj_cls # "none"
    /\ LET st == setattr_(Self, cls_allow[obj_cls], key, value)
       IN  DocStep("setattr", obj_cls, st, key, FALSE,
                   IF key = "_id" /\ st.exc = "ok" THEN "caller" ELSE "none")
    /\ UNCHANGED <<cls_allow, cls_db>>

\* lines 246-249: doc[key] = value
__setitem__(key, value) ==
    /\ obj_cls # "none"
    /\ LET st == setattr_(Self, cls_allow[obj_cls], key, value)
       IN  DocStep("setitem", obj_cls, st, key, FALSE,
                   IF key = "_id" /\ st.exc = "ok" THEN "caller" ELSE "none")
    /\ UNCHANGED <<cls_allow, cls_db>>

\* del doc.key
__delattr__(key) ==
    /\ obj_cls # "none"
    /\ DocStep("delattr", obj_cls, delattr_(Self, key), key, FALSE, "none")
    /\ UNCHANGED <<cls_allow, cls_db>>

\* del doc[key]
__delitem__(key) ==
    /\ obj_cls # "none"
    /\ DocStep("delitem", obj_cls, delitem_(Self, key), key, FALSE, "none")
    /\ UNCHANGED <<cls_allow, cls_db>>

\* couchdbkit.schema.properties, LazyList.append: doc.key.append(x) adds x to
\* the wrapper and to the list the wrapper was given
append(key, x) ==
    /\ obj_cls # "none"
    /\ obj_dynamic[key].vt = "list"
    /\ Len(obj_dynamic[key].vl) < MaxList
    /\ LET st == St(IF key \in obj_bound
                    THEN [obj_doc EXCEPT ![key] = List(Append(obj_doc[key].vl, x))]
                    ELSE obj_doc,
                    [obj_dynamic EXCEPT ![key] = List(Append(obj_dynamic[key].vl, x))],
                    obj_dict, obj_bound, "ok")
       IN  DocStep("append", obj_cls, st, key, FALSE, "none")
    /\ UNCHANGED <<cls_allow, cls_db>>

\* couchdbkit.schema.properties, LazyList.__delitem__: del doc.key[0]
list_delitem(key) ==
    /\ obj_cls # "none"
    /\ obj_dynamic[key].vt = "list"
    /\ obj_dynamic[key].vl # << >>
    /\ LET st == St(IF key \in obj_bound
                    THEN [obj_doc EXCEPT ![key] = List(Tail(obj_doc[key].vl))]
                    ELSE obj_doc,
                    [obj_dynamic EXCEPT ![key] = List(Tail(obj_dynamic[key].vl))],
                    obj_dict, obj_bound, "ok")
       IN  DocStep("list_delitem", obj_cls, st, key, FALSE, "none")
    /\ UNCHANGED <<cls_allow, cls_db>>

\* doc.clone(**kwargs); the clone is followed from here on, the instance itself
\* when clone raised
clone_call(kwargs) ==
    /\ obj_cls # "none"
    /\ LET obj == clone(Self, obj_cls, cls_allow[obj_cls], kwargs)
       IN  IF obj.exc = "ok"
           THEN DocStep("clone", obj_cls, obj, "none", FALSE, "none")
           ELSE DocStep("clone", obj_cls, Fails(Self, obj.exc), "none", FALSE, "none")
    /\ UNCHANGED <<cls_allow, cls_db>>

\* lines 406-409: Document.set_db(db)
set_db ==
    /\ ~cls_db
    /\ cls_db' = TRUE
    /\ UNCHANGED <<obj_cls, cls_allow, obj_doc, obj_dynamic, obj_dict, obj_bound, id_from,
                   sop, skey, sout, scalls>>
    /\ UNCHANGED notDoc

SaveAnswers == {"created", "conflict"}

\* the _id and _rev the database gives
ServerId == Str("u")

ServerRev == Str("r")

\* lines 419-430 and client.py 254-299: self.save() with a database; to_json
\* fills _doc, save_doc puts an _id in a document that has none, and the _rev of
\* the answer unless the server answered a document that has an _id with a conflict
save(st, c, db, answer) ==
    LET d1 == schema_to_json(c, st.d)
        d2 == IF has(d1, "_id") THEN d1 ELSE [d1 EXCEPT !["_id"] = ServerId]
    IN  IF st.exc # "ok" THEN st
        ELSE IF ~db THEN Fails(st, "TypeError")
        ELSE IF has(d1, "_id") /\ answer = "conflict"
        THEN St(d1, st.dyn, st.at, st.bnd, "ResourceConflict")
        ELSE St([d2 EXCEPT !["_rev"] = ServerRev], st.dyn, st.at, st.bnd, "ok")

\* doc.save()
save_call(answer) ==
    /\ obj_cls # "none"
    /\ DocStep("save", obj_cls, save(Self, obj_cls, cls_db, answer), "none", FALSE,
               IF has(obj_doc, "_id") THEN "none" ELSE "server")
    /\ UNCHANGED <<cls_allow, cls_db>>

DocIds == {Absent, Str("a"), Str(""), Str("_x")}

\* the document the server has under docid, when it has one
Found(docid) == [Kw(docid, <<"title", Str("a")>>) EXCEPT !["_rev"] = ServerRev]

\* lines 467-490: cls.get_or_create(docid, dynamic_properties=...); found is the
\* document the server has under docid when open_doc asks, Absent when it has
\* none; answer is the server's answer to the PUT of save, a conflict when
\* another client has created the document since open_doc
get_or_create(c, docid, dynamic_properties, found, answer) ==
    /\ UNCHANGED cls_db
    /\ cls_allow' = [cls_allow EXCEPT ![c] = dynamic_properties]
    /\ LET obj == schema_init(c, dynamic_properties, NoKeys)
           arg == IF docid = Absent THEN "none" ELSE docid.vs
       IN  IF ~cls_db
           THEN DocStep("get_or_create", c, Fails(obj, "TypeError"), arg, TRUE, "none")
           ELSE IF docid = Absent
           THEN DocStep("get_or_create", c, save(obj, c, TRUE, answer), arg, TRUE, "server")
           ELSE IF found # Absent
           THEN DocStep("get_or_create", c, wrap(c, dynamic_properties, found), arg, TRUE,
                        "wire")
           ELSE DocStep("get_or_create", c,
                        save(setattr_(obj, dynamic_properties, "_id", docid), c, TRUE, answer),
                        arg, TRUE, "caller")

\* no instance yet, and the other operations of the library at rest
InitS ==
    /\ Init
    /\ doc = [val |-> ClientVal]

NextS ==
    \/ \E c \in DocClasses : \E kwargs \in Kwargs : __init__(c, kwargs)
    \/ \E c \in DocClasses : \E data \in WireData : wrap_call(c, data)
    \/ \E arg \in SetArgs : __setattr__(arg[1], arg[2])
    \/ \E arg \in SetItemArgs : __setitem__(arg[1], arg[2])
    \/ \E key \in Keys : __delattr__(key)
    \/ \E key \in Keys : __delitem__(key)
    \/ \E key \in Keys : append(key, "b")
    \/ \E key \in Keys : list_delitem(key)
    \/ \E kwargs \in CloneKwargs : clone_call(kwargs)
    \/ set_db
    \/ \E answer \in SaveAnswers : save_call(answer)
    \/ \E c \in DocClasses : \E docid \in DocIds : \E dynamic_properties \in BOOLEAN :
         \E found \in {Absent, Found(docid)} : \E answer \in SaveAnswers :
           get_or_create(c, docid, dynamic_properties, found, answer)

SpecDoc == InitS /\ [][NextS]_vars


\* what a read gives besides values: a bound method of the class, or an
\* AttributeError
Method == Val("method", "", << >>)

Raised == Val("AttributeError", "", << >>)

\* attribute lookup and lines 224-231: getattr(self, key); a declared field is
\* read by its descriptor, then come the instance's own attributes, the names
\* of the class and __getattr__
getattr_(st, key) ==
    IF key \in _properties THEN property_get(st.d, key)
    ELSE IF has(st.at, key) THEN st.at[key]
    ELSE IF key \in class_dir THEN Method
    ELSE IF has(st.dyn, key) THEN st.dyn[key]
    ELSE IF key \in {"_id", "_rev"} THEN (IF has(st.d, key) THEN st.d[key] ELSE NoneV)
    ELSE Raised

\* lines 233-244: self[key]
getitem_(st, key) ==
    LET attr == getattr_(st, key)
    IN  IF attr \in {Method, Raised}
        THEN IF has(st.d, key) THEN st.d[key] ELSE Raised
        ELSE attr

\* the exceptions of class definition (SchemaProperties.__new__)
DefinitionErrors == {"ReservedWordError", "DuplicatePropertyError"}

\* C26: no operation on a document instance (construction, wrap, attribute or
\* key assignment, deletion, clone, save, get_or_create) raises
\* ReservedWordError or DuplicatePropertyError.
C26_NoDefinitionError == sout \notin DefinitionErrors


\* a string that is not empty and does not begin with an underscore
ProperId(value) == value.vt = "str" /\ value.vs # "" /\ ~startswith_(value.vs)

\* C28: the _id in the wire form of a document, when the caller has put it
\* (constructor keyword, attribute or key assignment, get_or_create), is a
\* string that is not empty and does not begin with an underscore.
C28_CallerId == (obj_cls # "none" /\ id_from = "caller") => ProperId(obj_doc["_id"])


\* lines 316-325: the keys of a wire map that wrap is to make dynamic fields
Eligible(d) ==
    {k \in Keys \ _properties : has(d, k) /\ d[k] # NoneV /\ ~startswith_(k) /\ k # "doc_type"}

\* the keys of a wire map that no declaration and no reserved name accounts for
Undeclared(d) == {k \in Keys \ (_properties \cup {"_id", "_rev", "doc_type"}) : has(d, k)}

\* C29: wrap raises nothing; on a class that permits dynamic properties every
\* eligible key of the wire map is a dynamic field afterwards; on a class that
\* does not there is no dynamic field, and the undeclared keys of the map are
\* neither readable from the instance nor part of its to_json.
C29_Wrap ==
    sop = "wrap" =>
        /\ sout = "ok"
        /\ IF cls_allow[obj_cls]
           THEN \A k \in Eligible(obj_doc) : has(obj_dynamic, k)
           ELSE /\ obj_dynamic = NoKeys
                /\ Undeclared(schema_to_json(obj_cls, obj_doc)) = {}
                /\ \A k \in Keys \ (_properties \cup {"_id", "_rev", "doc_type"}) :
                      getitem_(Self, k) = Raised


\* the dynamic fields that hold a list
ListFields == {k \in Keys : has(obj_dynamic, k) /\ obj_dynamic[k].vt = "list"}

\* C30: the list read from a dynamic field and the entry of the wire form
\* (to_json) under the field's key have the same items, in every state.
C30_WriteThrough ==
    obj_cls # "none" =>
        \A k \in ListFields : schema_to_json(obj_cls, obj_doc)[k] = getattr_(Self, k)


\* the operations that make an instance by the constructor or by wrap
Makers == {"init", "wrap", "get_or_create"}

all_properties(st) == _properties \cup {k \in Keys : has(st.dyn, k)}

\* lines 289-292: len(self) is len(self._doc or ())
len_(st) == Cardinality({k \in Keys : has(st.d, k)})

\* lines 261-272: key in self
contains_(st, key) == key \in all_properties(st) \/ has(st.d, key)

\* C31: len of a document is the number of its declared and dynamic field
\* names, and a key is contained in it exactly when it is one of those names.
C31_SizeAndContainment ==
    obj_cls # "none" =>
        /\ len_(Self) = Cardinality(all_properties(Self))
        /\ \A k \in Keys : contains_(Self, k) <=> k \in all_properties(Self)


\* the step is a key deletion, del doc[key]
IsDelitem == sop' = "delitem" /\ scalls' = scalls + 1

\* C32: del doc[key] of a dynamic field succeeds and removes the key from the
\* dynamic fields and from the wire form; of _id or _rev held in the wire form
\* succeeds and removes it from the wire form; of a key that is neither
\* declared nor dynamic raises KeyError and leaves the wire form as it was.
C32_KeyDeletion ==
    [][IsDelitem =>
          IF has(obj_dynamic, skey')
          THEN sout' = "ok" /\ ~has(obj_dynamic', skey') /\ ~has(obj_doc', skey')
          ELSE IF skey' \in {"_id", "_rev"} /\ has(obj_doc, skey')
          THEN sout' = "ok" /\ ~has(obj_doc', skey')
          ELSE IF skey' \notin _properties
          THEN sout' = "KeyError" /\ obj_doc' = obj_doc
          ELSE TRUE]_vars


\* the undeclared names an instance has no attribute for
FreeNames == {"tags", "doc_type"}

\* C34: no operation changes whether a class permits dynamic properties: the
\* flags are those of the class statements, an instance of StaticDocument made
\* by wrap has no dynamic field, and assigning an undeclared field to an
\* instance of StaticDocument raises AttributeError.
C34_PermissionFixed ==
    /\ cls_allow = [c \in DocClasses |-> c = "Document"]
    /\ (sop = "wrap" /\ obj_cls = "StaticDocument") => obj_dynamic = NoKeys
    /\ (sop \in {"setattr", "setitem"} /\ obj_cls = "StaticDocument" /\ skey \in FreeNames)
          => sout = "AttributeError"


\* C37: get_or_create(docid) on a class that has a database, for a docid that
\* is a string, not empty and without a leading underscore, returns a document
\* whose _id is docid, whatever other clients do meanwhile.
C37_GetOrCreate ==
    (sop = "get_or_create" /\ cls_db /\ ProperId(Str(skey)) /\ skey # "none") =>
        /\ sout = "ok"
        /\ obj_doc["_id"] = Str(skey)

============================================================================
